---- MODULE Spec2Model ----
(***************************************************************************)
(* Verification model of the obsidian-work-log plugin: the LogManager      *)
(* (primary log and related-note insertion), the AutoLinker (name index    *)
(* and processText), the category part of the settings tab and the         *)
(* plugin's addEntry orchestration.                                        *)
(*                                                                         *)
(* Text is a sequence of atoms.  Every character a pattern of the code     *)
(* looks at ("\n", " ", "#", "[", "]", "-", "|", ...) is an atom of its    *)
(* own; a calendar date YYYY-MM-DD is one atom (the code only ever matches *)
(* it whole, with \d{4}-\d{2}-\d{2}); a run of other characters in a       *)
(* markdown document is one atom.  Offsets are 0-based as in the source.   *)
(***************************************************************************)
EXTENDS Integers, Sequences, FiniteSets, TLC

VARIABLES
    settings,                 \* WorkLogPlugin.settings, shared with LogManager.settings
    files,                    \* vault: path -> content, or Absent
    folders,                  \* vault: set of folder paths
    linkDest,                 \* metadataCache: note name -> path, or NoPath
    cachedWorkLogPattern,     \* LogManager.cachedWorkLogPattern
    cachedRelatedNotePattern, \* LogManager.cachedRelatedNotePattern
    cachedNextHeadingPattern, \* LogManager.cachedNextHeadingPattern
    calls,                    \* the LogManager calls made so far, with their outcome
    formatted,                \* the formatter call of the last step, or NoFormat
    mdFiles,                  \* vault: the markdown files the AutoLinker is told about
    noteNames,                \* AutoLinker.noteNames, in insertion order
    noteNamesLower,           \* AutoLinker.noteNamesLower: set of [key, value]
    cachedPatterns,           \* AutoLinker.cachedPatterns
    indexBuilt,               \* AutoLinker.indexBuilt
    rebuildTimer,             \* AutoLinker.rebuildTimer: NoTimer or a timer handle
    timers,                   \* the host's timer queue: handles set and not yet fired or cleared
    loaded,                   \* the AutoLinker component is loaded (its events are registered)
    processed,                \* the processText call of the last step, or NoCall
    pluginPc,                 \* WorkLogPlugin.addEntry: "idle", "primary" or "related"
    pluginEntry,              \* the entry of the addEntry call in progress or just ended
    lastNotice,               \* the Notice shown last, or NoNotice
    rejected,                 \* the last addEntry call rethrew its error
    modals,                   \* the EntryModal and TaskModal instances, by id
    view,                     \* the settings tab as rendered: the controls it shows
    pendingSaves,             \* category handlers waiting in `await saveSettings()`
    fieldSaves,               \* formatting handlers waiting in `await saveSettings()`
    tabOps                    \* the number of clicks made in the settings tab

logVars == <<files, folders, linkDest, cachedWorkLogPattern, cachedRelatedNotePattern,
             cachedNextHeadingPattern, calls, formatted>>

linkerVars == <<mdFiles, noteNames, noteNamesLower, cachedPatterns, indexBuilt, rebuildTimer,
                timers, loaded, processed>>

pluginVars == <<pluginPc, pluginEntry, lastNotice, rejected, modals>>

tabVars == <<view, pendingSaves, fieldSaves, tabOps>>

vars == <<settings, logVars, linkerVars, pluginVars, tabVars>>

(***************************************************************************)
(* Bounds                                                                  *)
(***************************************************************************)
MaxLogOps == 4
MaxNoteOps == 2
MaxPluginCalls == 2
MaxTabOps == 4
MaxAttempts == 2

(***************************************************************************)
(* Atoms and string helpers (String.prototype semantics)                   *)
(***************************************************************************)
NL == "\n"
SP == " "
Whitespace == {NL, SP}

\* the dates of the model, in ascending order
Dates == <<"2025-01-10", "2025-01-15", "2025-01-20", "2025-01-25">>

Range(s) == {s[i] : i \in 1..Len(s)}

DateSet == Range(Dates)

DateIndex(d) == CHOOSE i \in 1..Len(Dates) : Dates[i] = d

\* a < b on two YYYY-MM-DD strings: fixed width, so the string order is the date order
DateLess(a, b) == DateIndex(a) < DateIndex(b)

\* s.substring(a, b)
Substring(s, a, b) == SubSeq(s, a + 1, b)

\* s.substring(a)
SubstringFrom(s, a) == SubSeq(s, a + 1, Len(s))

\* s.trimEnd()
RECURSIVE TrimEnd(_)
TrimEnd(s) ==
    IF Len(s) > 0 /\ s[Len(s)] \in Whitespace
    THEN TrimEnd(SubSeq(s, 1, Len(s) - 1))
    ELSE s

\* s.trim()
RECURSIVE TrimStart(_)
TrimStart(s) ==
    IF Len(s) > 0 /\ s[1] \in Whitespace THEN TrimStart(Tail(s)) ELSE s

Trim(s) == TrimStart(TrimEnd(s))

\* s.startsWith(p)
StartsWith(s, p) == Len(p) <= Len(s) /\ SubSeq(s, 1, Len(p)) = p

(***************************************************************************)
(* Compiled patterns.  A pattern is a sequence of elements: a literal      *)
(* atom, DateGroup for (\d{4}-\d{2}-\d{2}) or NotHash for [^#].            *)
(***************************************************************************)
DateGroup == "(\\d{4}-\\d{2}-\\d{2})"
NotHash == "[^#]"
NoPattern == <<"null">>

\* the characters /[.*+?^${}()|[\]\\]/ of escapeHeadingLevel and escapeRegex
RegexMeta == {".", "*", "+", "?", "^", "$", "{", "}", "(", ")", "|", "[", "]", "\\"}

\* '\\$&': the metacharacter with a backslash before it
Escaped(c) ==
    CASE c = "." -> "\\." [] c = "*" -> "\\*" [] c = "+" -> "\\+" [] c = "?" -> "\\?"
      [] c = "^" -> "\\^" [] c = "$" -> "\\$" [] c = "{" -> "\\{" [] c = "}" -> "\\}"
      [] c = "(" -> "\\(" [] c = ")" -> "\\)" [] c = "|" -> "\\|" [] c = "[" -> "\\["
      [] c = "]" -> "\\]" [] c = "\\" -> "\\\\"

EscapedSet == {"\\.", "\\*", "\\+", "\\?", "\\^", "\\$", "\\{", "\\}", "\\(", "\\)", "\\|",
               "\\[", "\\]", "\\\\"}

\* one pattern element against one atom: a group, an escaped metacharacter (the
\* character itself), a bare "." (any character but a line break), or a literal
ElemMatches(e, c) ==
    IF e = DateGroup THEN c \in DateSet
    ELSE IF e = NotHash THEN c # "#"
    ELSE IF e = "." THEN c # NL
    ELSE IF e \in EscapedSet THEN c \in RegexMeta /\ e = Escaped(c)
    ELSE e = c

\* the pattern matches s at offset i
MatchAt(s, i, pat) ==
    /\ i + Len(pat) <= Len(s)
    /\ \A k \in 1..Len(pat) : ElemMatches(pat[k], s[i + k])

\* RegExp.exec from lastIndex: offset of the first match at or after `from`, or -1
RECURSIVE RegexSearch(_, _, _)
RegexSearch(s, pat, from) ==
    IF from + Len(pat) > Len(s) THEN -1
    ELSE IF MatchAt(s, from, pat) THEN from
    ELSE RegexSearch(s, pat, from + 1)

\* s.indexOf(p, from): the offset of the first literal occurrence of p, or -1
RECURSIVE IndexOfFrom(_, _, _)
IndexOfFrom(s, p, from) ==
    IF from + Len(p) > Len(s) THEN -1
    ELSE IF \A k \in 1..Len(p) : s[from + k] = p[k] THEN from
    ELSE IndexOfFrom(s, p, from + 1)

\* s.indexOf(p)
IndexOf(s, p) == IndexOfFrom(s, p, 0)

\* offset of the capture group inside a date pattern
GroupOffset(pat) == (CHOOSE k \in 1..Len(pat) : pat[k] = DateGroup) - 1

(***************************************************************************)
(* types.ts                                                                *)
(***************************************************************************)
DEFAULT_CATEGORIES == <<
    [id |-> "demo", label |-> "Demo"],
    [id |-> "customer", label |-> "Customer"] >>

\* getCategoryLabel(categories, id): the label of the first category with that id, else the id
getCategoryLabel(categories, id) ==
    LET hits == {i \in 1..Len(categories) : categories[i].id = id}
    IN IF hits = {} THEN id
       ELSE categories[CHOOSE i \in hits : \A j \in hits : i <= j].label

H2 == <<"#", "#">>
H3 == <<"#", "#", "#">>
H4 == <<"#", "#", "#", "#">>

DEFAULT_SETTINGS == [
    logFilePath |-> "work-log.md",
    defaultCategory |-> "customer",
    categories |-> DEFAULT_CATEGORIES,
    showTimestamps |-> FALSE,
    showCategoryInLog |-> TRUE,
    showCategoryInRelatedNote |-> FALSE,
    createRelatedNoteIfMissing |-> TRUE,
    newRelatedNoteFolder |-> "References",
    relatedNoteSectionHeading |-> <<"#", "#", " ", "Notes">>,
    relatedNoteDateHeadingLevel |-> H3,
    workLogDateHeadingLevel |-> H2,
    workLogDateAsLink |-> TRUE,
    separateEntriesWithBlankLine |-> TRUE ]

(***************************************************************************)
(* LogManager: headings and patterns                                       *)
(***************************************************************************)
\* buildDateHeading(date, forWorkLog)
buildDateHeading(s, date, forWorkLog) ==
    LET level == IF forWorkLog THEN s.workLogDateHeadingLevel
                 ELSE s.relatedNoteDateHeadingLevel
    IN IF forWorkLog /\ s.workLogDateAsLink THEN level \o <<" ", "[", "[", date, "]", "]">>
       ELSE IF ~forWorkLog THEN level \o <<" ", "[", "[", date, "]", "]">>
       ELSE level \o <<" ", date>>

\* escapeHeadingLevel(level) and the same replace on the section heading:
\* every regex metacharacter gets a backslash
escapeHeadingLevel(level) ==
    [i \in 1..Len(level) |-> IF level[i] \in RegexMeta THEN Escaped(level[i]) ELSE level[i]]

\* the pattern buildDatePattern(true) compiles when nothing is cached
CompileWorkLogPattern(s) ==
    escapeHeadingLevel(s.workLogDateHeadingLevel) \o <<" ">> \o
    (IF s.workLogDateAsLink THEN <<"\\[", "\\[", DateGroup, "\\]", "\\]">>
     ELSE <<DateGroup>>)

\* the pattern buildDatePattern(false) compiles when nothing is cached
CompileRelatedNotePattern(s) ==
    escapeHeadingLevel(s.relatedNoteDateHeadingLevel)
    \o <<" ", "\\[", "\\[", DateGroup, "\\]", "\\]">>

\* the pattern insertEntryToLog compiles for the end of a date section
CompileNextHeadingPattern(s) ==
    <<NL>> \o escapeHeadingLevel(s.workLogDateHeadingLevel) \o <<" ">>

\* buildDatePattern(forWorkLog): the cached pattern, compiled on first use
buildDatePattern(s, cache, forWorkLog) ==
    IF cache # NoPattern THEN cache
    ELSE IF forWorkLog THEN CompileWorkLogPattern(s) ELSE CompileRelatedNotePattern(s)

\* the while loop over datePattern.exec: the offset of the first date heading
\* whose date is greater than `date`, or -1
RECURSIVE FindInsertPosition(_, _, _, _)
FindInsertPosition(content, datePattern, date, lastIndex) ==
    LET idx == RegexSearch(content, datePattern, lastIndex)
    IN IF idx = -1 THEN -1
       ELSE LET existingDate == content[idx + GroupOffset(datePattern) + 1]
            IN IF DateLess(date, existingDate) THEN idx
               ELSE FindInsertPosition(content, datePattern, date, idx + Len(datePattern))

(***************************************************************************)
(* LogManager: entry formatting                                            *)
(***************************************************************************)
Digits == <<"0", "1", "2", "3", "4", "5", "6", "7", "8", "9">>

TwoDigits(n) == <<Digits[(n \div 10) + 1], Digits[(n % 10) + 1]>>

\* moment(timestamp).format('HH:mm'); a timestamp is the minute of the local day
FormatHHmm(timestamp) ==
    TwoDigits(timestamp \div 60) \o <<":">> \o TwoDigits(timestamp % 60)

\* description.split('\n')
RECURSIVE SplitLines(_)
SplitLines(text) ==
    LET nls == {i \in 1..Len(text) : text[i] = NL}
    IN IF nls = {} THEN <<text>>
       ELSE LET i == CHOOSE k \in nls : \A j \in nls : k <= j
            IN <<SubSeq(text, 1, i - 1)>> \o SplitLines(SubSeq(text, i + 1, Len(text)))

\* lines.join('\n')
RECURSIVE JoinLines(_)
JoinLines(lines) ==
    IF Len(lines) = 0 THEN <<>>
    ELSE IF Len(lines) = 1 THEN lines[1]
    ELSE lines[1] \o <<NL>> \o JoinLines(Tail(lines))

\* the .filter((line, idx) => line !== '' || idx === 0) of formatMultiLineDescription
RECURSIVE FilterBlank(_, _)
FilterBlank(lines, idx) ==
    IF Len(lines) = 0 THEN <<>>
    ELSE IF lines[1] # <<>> \/ idx = 0
         THEN <<lines[1]>> \o FilterBlank(Tail(lines), idx + 1)
         ELSE FilterBlank(Tail(lines), idx + 1)

\* the .map of formatMultiLineDescription without the trim
MapLineNoTrim(line, index) ==
    IF index = 0 THEN line
    ELSE IF Trim(line) # <<>> THEN <<SP, SP>> \o line
    ELSE <<>>

\* the .map of formatMultiLineDescription
MapLine(line, index) ==
    IF index = 0 THEN line
    ELSE IF Trim(line) # <<>> THEN <<SP, SP>> \o Trim(line)
    ELSE <<>>

formatMultiLineDescription(description) ==
    LET lines == SplitLines(description)
    IN IF Len(lines) = 1 THEN description
       ELSE JoinLines(FilterBlank([i \in 1..Len(lines) |-> MapLine(lines[i], i - 1)], 0))

\* parts.join(', ')
RECURSIVE JoinComma(_)
JoinComma(parts) ==
    IF Len(parts) = 0 THEN <<>>
    ELSE IF Len(parts) = 1 THEN parts[1]
    ELSE parts[1] \o <<",", SP>> \o JoinComma(Tail(parts))

\* formatLogEntry with the category always pushed
formatLogEntryAlwaysCategory(s, entry) ==
    LET description == formatMultiLineDescription(entry.description)
        catPart == <<"*", "*", getCategoryLabel(s.categories, entry.category), "*", "*">>
        parenParts ==
            (IF entry.relatedNote # "" THEN << <<"[", "[", entry.relatedNote, "]", "]">> >> ELSE <<>>)
            \o (IF s.showTimestamps THEN << FormatHHmm(entry.timestamp) >> ELSE <<>>)
    IN IF Len(parenParts) > 0
       THEN <<"-", SP>> \o catPart \o <<SP, "(">> \o JoinComma(parenParts)
            \o <<")", ":", SP>> \o description
       ELSE <<"-", SP>> \o catPart \o <<":", SP>> \o description

formatLogEntry(s, entry) ==
    LET description == formatMultiLineDescription(entry.description)
        catPart == <<"*", "*", getCategoryLabel(s.categories, entry.category), "*", "*">>
        parenParts ==
            (IF entry.relatedNote # "" THEN << <<"[", "[", entry.relatedNote, "]", "]">> >> ELSE <<>>)
            \o (IF s.showTimestamps THEN << FormatHHmm(entry.timestamp) >> ELSE <<>>)
        nParts == Len(parenParts) + (IF s.showCategoryInLog THEN 1 ELSE 0)
    IN IF nParts = 0 THEN <<"-", SP>> \o description
       ELSE IF s.showCategoryInLog /\ Len(parenParts) > 0
            THEN <<"-", SP>> \o catPart \o <<SP, "(">> \o JoinComma(parenParts)
                 \o <<")", ":", SP>> \o description
       ELSE IF s.showCategoryInLog
            THEN <<"-", SP>> \o catPart \o <<":", SP>> \o description
       ELSE <<"-", SP, "(">> \o JoinComma(parenParts) \o <<")", ":", SP>> \o description

formatRelatedNoteEntry(s, entry) ==
    LET description == formatMultiLineDescription(entry.description)
        categoryLabel == getCategoryLabel(s.categories, entry.category)
    IN IF s.showCategoryInRelatedNote
       THEN IF s.showTimestamps
            THEN <<"*", "*", categoryLabel, "*", "*", SP, "(">> \o FormatHHmm(entry.timestamp)
                 \o <<")", ":", SP>> \o description
            ELSE <<"*", "*", categoryLabel, "*", "*", ":", SP>> \o description
       ELSE description

(***************************************************************************)
(* LogManager.insertEntryToLog                                             *)
(***************************************************************************)
Separator(s) == IF s.separateEntriesWithBlankLine THEN <<NL, NL>> ELSE <<NL>>

\* datePattern and nextHeadingPattern are the patterns the call uses (cached or
\* freshly compiled)
insertEntryToLog(s, datePattern, nextHeadingPattern, content, entry) ==
    LET dateHeading == buildDateHeading(s, entry.date, TRUE)
        entryLine == formatLogEntry(s, entry)
        headingIndex == IndexOf(content, dateHeading)
    IN IF headingIndex # -1
       THEN LET afterHeading == SubstringFrom(content, headingIndex + Len(dateHeading))
                nextHeadingMatch == RegexSearch(afterHeading, nextHeadingPattern, 0)
                sectionEnd == IF nextHeadingMatch # -1
                              THEN headingIndex + Len(dateHeading) + nextHeadingMatch
                              ELSE Len(content)
                beforeSection == TrimEnd(Substring(content, 0, sectionEnd))
                afterSection == SubstringFrom(content, sectionEnd)
            IN beforeSection \o Separator(s) \o entryLine \o afterSection
       ELSE LET insertPosition == FindInsertPosition(content, datePattern, entry.date, 0)
                newSection == dateHeading \o <<NL, NL>> \o entryLine \o <<NL>>
            IN IF insertPosition = -1
               THEN TrimEnd(content) \o <<NL, NL>> \o newSection
               ELSE Substring(content, 0, insertPosition) \o newSection \o <<NL>>
                    \o SubstringFrom(content, insertPosition)

\* offsets at which a line of the document starts
LineStarts(content) ==
    {i \in 0..(Len(content) - 1) : i = 0 \/ content[i] = NL}

(***************************************************************************)
(* LogManager.insertEntryToRelatedNote                                     *)
(***************************************************************************)
\* length of the run of whitespace that starts at offset i
RECURSIVE WhitespaceRun(_, _)
WhitespaceRun(content, i) ==
    IF i < Len(content) /\ content[i + 1] \in Whitespace
    THEN 1 + WhitespaceRun(content, i + 1)
    ELSE 0

\* \s*$ under the m flag at offset i: how many whitespace characters the greedy
\* \s* keeps so that $ holds (end of input, or just before a line break); -1 when
\* no amount does
TrailMatch(content, i) ==
    LET run == WhitespaceRun(content, i)
        ok == {k \in 0..run : i + k = Len(content) \/ content[i + k + 1] = NL}
    IN IF ok = {} THEN -1 ELSE CHOOSE k \in ok : \A j \in ok : j <= k

\* content.match(sectionPattern), sectionPattern = /^<escaped heading>\s*$/m:
\* [index, length] of the leftmost match, index -1 when there is none
SectionMatch(content, sectionHeading) ==
    LET pat == escapeHeadingLevel(sectionHeading)
        hits == {i \in LineStarts(content) \cup {0} :
                    MatchAt(content, i, pat) /\ TrailMatch(content, i + Len(pat)) # -1}
    IN IF hits = {} THEN [index |-> -1, length |-> 0]
       ELSE LET i == CHOOSE k \in hits : \A j \in hits : k <= j
            IN [index |-> i, length |-> Len(pat) + TrailMatch(content, i + Len(pat))]

\* findFrontmatterEnd(content)
findFrontmatterEnd(content) ==
    IF ~StartsWith(content, <<"-", "-", "-">>) THEN 0
    ELSE LET endMatch == RegexSearch(SubstringFrom(content, 3), <<NL, "-", "-", "-", NL>>, 0)
         IN IF endMatch # -1 THEN 3 + endMatch + 5 ELSE 0

\* afterDateHeading.match(/\n###? /): offset of the first match, or -1
RECURSIVE NextSubsectionFrom(_, _)
NextSubsectionFrom(text, i) ==
    IF i >= Len(text) THEN -1
    ELSE IF MatchAt(text, i, <<NL, "#", "#", SP>>) \/ MatchAt(text, i, <<NL, "#", "#", "#", SP>>)
         THEN i
    ELSE NextSubsectionFrom(text, i + 1)

NextSubsectionMatch(text) == NextSubsectionFrom(text, 0)

\* datePattern is the pattern the call uses (cached or freshly compiled)
insertEntryToRelatedNote(s, datePattern, content, entry) ==
    LET dateHeading == buildDateHeading(s, entry.date, FALSE)
        entryLine == formatRelatedNoteEntry(s, entry)
        sectionHeading == s.relatedNoteSectionHeading
        notesMatch == SectionMatch(content, sectionHeading)
    IN IF notesMatch.index = -1
       THEN LET insertPos == findFrontmatterEnd(content)
                notesSection == sectionHeading \o <<NL, NL>> \o dateHeading \o <<NL>>
                                \o entryLine \o <<NL>>
            IN IF insertPos = 0 THEN notesSection \o <<NL>> \o content
               ELSE Substring(content, 0, insertPos) \o <<NL>> \o notesSection \o <<NL>>
                    \o SubstringFrom(content, insertPos)
       ELSE
         LET notesSectionStart == notesMatch.index
             afterNotesSection == SubstringFrom(content, notesSectionStart + notesMatch.length)
             nextH2Match == RegexSearch(afterNotesSection, <<NL, "#", "#", SP, NotHash>>, 0)
             notesSectionEnd == IF nextH2Match # -1
                                THEN notesSectionStart + notesMatch.length + nextH2Match
                                ELSE Len(content)
             notesSection == Substring(content, notesSectionStart, notesSectionEnd)
             dateSubsectionPattern == escapeHeadingLevel(s.relatedNoteDateHeadingLevel)
                                      \o <<SP, "\\[", "\\[", entry.date, "\\]", "\\]">>
             dateMatch == RegexSearch(notesSection, dateSubsectionPattern, 0)
         IN IF dateMatch # -1
            THEN LET dateHeadingPos == notesSectionStart + dateMatch
                     afterDateHeading ==
                         SubstringFrom(content, dateHeadingPos + Len(dateSubsectionPattern))
                     nextSubsectionMatch == NextSubsectionMatch(afterDateHeading)
                     insertPos == IF nextSubsectionMatch # -1
                                  THEN dateHeadingPos + Len(dateSubsectionPattern)
                                       + nextSubsectionMatch
                                  ELSE notesSectionEnd
                 IN TrimEnd(Substring(content, 0, insertPos)) \o Separator(s) \o entryLine
                    \o <<NL>> \o SubstringFrom(content, insertPos)
            ELSE LET found == FindInsertPosition(notesSection, datePattern, entry.date, 0)
                     insertPosition == IF found = -1 THEN -1 ELSE notesSectionStart + found
                     newSubsection == dateHeading \o <<NL>> \o entryLine \o <<NL>>
                 IN IF insertPosition = -1
                    THEN TrimEnd(Substring(content, 0, notesSectionEnd)) \o <<NL>>
                         \o newSubsection \o SubstringFrom(content, notesSectionEnd)
                    ELSE TrimEnd(Substring(content, 0, insertPosition)) \o <<NL>>
                         \o newSubsection \o SubstringFrom(content, insertPosition)

(***************************************************************************)
(* The vault                                                               *)
(***************************************************************************)
Absent == <<"<absent>">>
NoPath == ""

LogPath == "work-log.md"
NoteNames == {"Acme", "John Doe"}
NoteFolders == {"References", ""}

\* `${folder}/${noteName}.md`, or `${noteName}.md` when the folder is blank
NotePathOf(folder, noteName) ==
    CASE folder = "References" /\ noteName = "Acme" -> "References/Acme.md"
      [] folder = "References" /\ noteName = "John Doe" -> "References/John Doe.md"
      [] folder = "" /\ noteName = "Acme" -> "Acme.md"
      [] folder = "" /\ noteName = "John Doe" -> "John Doe.md"

NotePaths == {NotePathOf(f, n) : f \in NoteFolders, n \in NoteNames}
Paths == {LogPath} \cup NotePaths

\* vault.getAbstractFileByPath(path): a file, a folder or nothing
AbstractKind(fs, dirs, path) ==
    IF path \in DOMAIN fs /\ fs[path] # Absent THEN "file"
    ELSE IF path \in dirs THEN "folder"
    ELSE "none"

\* path.substring(0, path.lastIndexOf('/')) for the paths of the model
ParentFolder(path) ==
    IF path \in {NotePathOf("References", n) : n \in NoteNames} THEN "References" ELSE ""

NoError == <<>>

\* no formatter call recorded
NoFormat == [op |-> "", input |-> <<>>, result |-> <<>>]

\* the header getOrCreateLogFile writes into a new log
LogHeader ==
    <<"#", SP, "work-log", NL, NL,
      "A continuous log of work activities, achievements, and contributions.", NL, NL>>

(***************************************************************************)
(* Entries submitted in the model                                          *)
(***************************************************************************)
\* descriptions: plain text, and text that quotes a date heading
DescPlain == <<"Helped Acme Corp">>
DescQuoteLink == <<"see", SP, "#", "#", "#", "#", SP, "[", "[", Dates[4], "]", "]">>
DescQuotePlain == <<"see", SP, "#", "#", "#", "#", SP, Dates[4]>>

\* the descriptions submitted under settings s: the quote is in the log's heading format
Descriptions(s) == {DescPlain, IF s.workLogDateAsLink THEN DescQuoteLink ELSE DescQuotePlain}

Entry(date, description, relatedNote) ==
    [date |-> date, category |-> "customer", description |-> description,
     relatedNote |-> relatedNote, timestamp |-> 870]

LogEntries(s) == {Entry(d, x, "") : d \in DateSet, x \in Descriptions(s)}

(***************************************************************************)
(* LogManager.addEntry, run to completion                                  *)
(***************************************************************************)
\* the record kept of one call
Call(op, name, entry, before, after, error) ==
    [op |-> op, name |-> name, entry |-> entry, before |-> before, after |-> after,
     error |-> error]

\* the outcome of addEntry(entry) on the vault (fs, dirs): getOrCreateLogFile, then
\* read, insertEntryToLog and modify
addEntry(s, fs, dirs, datePattern, nextHeadingPattern, entry) ==
    LET path == s.logFilePath
        kind == AbstractKind(fs, dirs, path)
        folderPath == ParentFolder(path)
        content == IF kind = "none" THEN LogHeader ELSE fs[path]
        newContent == insertEntryToLog(s, datePattern, nextHeadingPattern, content, entry)
    IN IF kind = "folder"
       THEN [files |-> fs, folders |-> dirs, before |-> Absent, after |-> Absent,
             error |-> <<path, " is not a file">>]
       ELSE [files |-> [fs EXCEPT ![path] = newContent],
             folders |-> IF kind = "none" /\ folderPath # ""
                            /\ AbstractKind(fs, dirs, folderPath) = "none"
                         THEN dirs \cup {folderPath} ELSE dirs,
             before |-> content, after |-> newContent, error |-> NoError]

\* whether the call compiles or reads the next-heading pattern: the date has a heading
UsesNextHeadingPattern(s, before, entry) ==
    before # Absent /\ IndexOf(before, buildDateHeading(s, entry.date, TRUE)) # -1

\* the call addEntry(entry) on the LogManager and the vault
LogManagerAddEntry(entry) ==
    /\ \E datePattern \in {buildDatePattern(settings, cachedWorkLogPattern, TRUE)} :
       \E nextPattern \in {IF cachedNextHeadingPattern # NoPattern
                           THEN cachedNextHeadingPattern
                           ELSE CompileNextHeadingPattern(settings)} :
       \E out \in {addEntry(settings, files, folders, datePattern, nextPattern, entry)} :
          /\ files' = out.files
          /\ folders' = out.folders
          /\ cachedWorkLogPattern' = IF out.error = NoError THEN datePattern
                                     ELSE cachedWorkLogPattern
          /\ cachedNextHeadingPattern' =
                 IF UsesNextHeadingPattern(settings, out.before, entry) THEN nextPattern
                 ELSE cachedNextHeadingPattern
          /\ calls' = Append(calls, Call("addEntry", "", entry, out.before, out.after,
                                         out.error))
    /\ UNCHANGED <<settings, linkDest, cachedRelatedNotePattern, formatted>>

AddEntry(entry) ==
    /\ Len(calls) < MaxLogOps
    /\ LogManagerAddEntry(entry)
    /\ UNCHANGED <<linkerVars, pluginVars, tabVars>>

(***************************************************************************)
(* LogManager.addToRelatedNote, run to completion                          *)
(***************************************************************************)
\* newRelatedNoteFolder.trim()
TrimFolder(folder) == IF folder \in {" ", ""} THEN "" ELSE folder

\* the content createRelatedNote gives a new note
NewNoteContent(s, entry) ==
    s.relatedNoteSectionHeading \o <<NL, NL>>
    \o s.relatedNoteDateHeadingLevel \o <<SP, "[", "[", entry.date, "]", "]">> \o <<NL>>
    \o formatRelatedNoteEntry(s, entry) \o <<NL>>

NotFoundError(noteName) == <<"Note \"", noteName, "\" not found">>

\* createRelatedNote without the configured folder: the note goes to the vault root
createRelatedNoteInRoot(s, fs, dirs, dest, noteName, entry) ==
    LET path == NotePathOf("", noteName)
    IN IF AbstractKind(fs, dirs, path) # "none"
       THEN [files |-> fs, folders |-> dirs, linkDest |-> dest, path |-> path,
             before |-> Absent, after |-> Absent, error |-> <<"File already exists.">>]
       ELSE [files |-> [fs EXCEPT ![path] = NewNoteContent(s, entry)],
             folders |-> dirs,
             linkDest |-> [dest EXCEPT ![noteName] = path],
             path |-> path, before |-> Absent, after |-> NewNoteContent(s, entry),
             error |-> NoError]

\* the outcome of createRelatedNote(noteName, entry) on the vault (fs, dirs, dest)
createRelatedNote(s, fs, dirs, dest, noteName, entry) ==
    LET folder == TrimFolder(s.newRelatedNoteFolder)
        path == NotePathOf(folder, noteName)
        dirs2 == IF folder # "" /\ AbstractKind(fs, dirs, folder) = "none"
                 THEN dirs \cup {folder} ELSE dirs
    IN IF AbstractKind(fs, dirs2, path) # "none"
       THEN \* vault.create rejects: something is at the path already
            [files |-> fs, folders |-> dirs2, linkDest |-> dest, path |-> path,
             before |-> Absent, after |-> Absent, error |-> <<"File already exists.">>]
       ELSE [files |-> [fs EXCEPT ![path] = NewNoteContent(s, entry)],
             folders |-> dirs2,
             linkDest |-> [dest EXCEPT ![noteName] = path],
             path |-> path, before |-> Absent, after |-> NewNoteContent(s, entry),
             error |-> NoError]

\* addToRelatedNote without the createRelatedNoteIfMissing test: a missing note is
\* always created
addToRelatedNoteAlwaysCreate(s, fs, dirs, dest, datePattern, noteName, entry) ==
    IF dest[noteName] = NoPath THEN createRelatedNote(s, fs, dirs, dest, noteName, entry)
    ELSE [files |-> [fs EXCEPT ![dest[noteName]] =
                        insertEntryToRelatedNote(s, datePattern, fs[dest[noteName]], entry)],
          folders |-> dirs, linkDest |-> dest, path |-> dest[noteName],
          before |-> fs[dest[noteName]],
          after |-> insertEntryToRelatedNote(s, datePattern, fs[dest[noteName]], entry),
          error |-> NoError]

\* the outcome of addToRelatedNote(noteName, entry) on the vault (fs, dirs, dest);
\* datePattern is the related-note date pattern the call uses
addToRelatedNote(s, fs, dirs, dest, datePattern, noteName, entry) ==
    LET noteFile == dest[noteName]
    IN IF noteFile = NoPath
       THEN IF s.createRelatedNoteIfMissing
            THEN createRelatedNote(s, fs, dirs, dest, noteName, entry)
            ELSE [files |-> fs, folders |-> dirs, linkDest |-> dest, path |-> NoPath,
                  before |-> Absent, after |-> Absent, error |-> NotFoundError(noteName)]
       ELSE LET content == fs[noteFile]
                newContent == insertEntryToRelatedNote(s, datePattern, content, entry)
            IN [files |-> [fs EXCEPT ![noteFile] = newContent], folders |-> dirs,
                linkDest |-> dest, path |-> noteFile, before |-> content,
                after |-> newContent, error |-> NoError]

\* whether that call reaches buildDatePattern(false): the note has a notes section
\* without a subsection for the date
UsesRelatedNotePattern(s, content, entry) ==
    LET notesMatch == SectionMatch(content, s.relatedNoteSectionHeading)
        afterNotes == SubstringFrom(content, notesMatch.index + notesMatch.length)
        nextH2 == RegexSearch(afterNotes, <<NL, "#", "#", SP, NotHash>>, 0)
        sectionEnd == IF nextH2 # -1 THEN notesMatch.index + notesMatch.length + nextH2
                      ELSE Len(content)
        notesSection == Substring(content, notesMatch.index, sectionEnd)
    IN /\ notesMatch.index # -1
       /\ RegexSearch(notesSection,
                      escapeHeadingLevel(s.relatedNoteDateHeadingLevel)
                      \o <<SP, "\\[", "\\[", entry.date, "\\]", "\\]">>, 0) = -1

\* the call addToRelatedNote(noteName, entry) on the LogManager and the vault
LogManagerAddToRelatedNote(noteName, entry) ==
    /\ \E datePattern \in {buildDatePattern(settings, cachedRelatedNotePattern, FALSE)} :
       \E out \in {addToRelatedNote(settings, files, folders, linkDest, datePattern,
                                    noteName, entry)} :
          /\ files' = out.files
          /\ folders' = out.folders
          /\ linkDest' = out.linkDest
          /\ cachedRelatedNotePattern' =
                 IF linkDest[noteName] # NoPath
                    /\ UsesRelatedNotePattern(settings, files[linkDest[noteName]], entry)
                 THEN datePattern ELSE cachedRelatedNotePattern
          /\ calls' = Append(calls, Call("addToRelatedNote", noteName, entry, out.before,
                                         out.after, out.error))
    /\ UNCHANGED <<settings, cachedWorkLogPattern, cachedNextHeadingPattern, formatted>>

AddToRelatedNote(noteName, entry) ==
    /\ Len(calls) < MaxNoteOps
    /\ LogManagerAddToRelatedNote(noteName, entry)
    /\ UNCHANGED <<linkerVars, pluginVars, tabVars>>

(***************************************************************************)
(* AutoLinker: text.  Here a text is a sequence of single characters; the  *)
(* word PLACEHOLDER of a placeholder token is one atom (no text or name of *)
(* the model contains its letters).                                        *)
(***************************************************************************)
\* c.toLowerCase() for the characters of the model
Lower(c) ==
    CASE c = "A" -> "a" [] c = "L" -> "l" [] c = "R" -> "r" [] c = "M" -> "m"
      [] OTHER -> c

\* s.toLowerCase()
LowerSeq(s) == [i \in 1..Len(s) |-> Lower(s[i])]

\* \w
WordChars ==
    {"A", "L", "R", "M", "a", "b", "d", "e", "h", "l", "m", "n", "o", "p", "r", "s", "t", "w",
     "y", "_", "PLACEHOLDER"} \cup Range(Digits)

\* the characters [^\s<>[\]] of the URL pattern excludes
UrlStop == Whitespace \cup {"<", ">", "[", "]"}

\* escapeRegex(str): every regex metacharacter gets a backslash
escapeRegex(str) ==
    [i \in 1..Len(str) |-> IF str[i] \in RegexMeta THEN Escaped(str[i]) ELSE str[i]]

\* one element of an escaped name against one character, under the i flag
ElemMatchesIgnoreCase(e, c) ==
    IF e \in EscapedSet THEN c \in RegexMeta /\ e = Escaped(c)
    ELSE Lower(e) = Lower(c)

\* the literal p at offset i of text, ignoring case
LiteralAt(text, i, p) ==
    /\ i + Len(p) <= Len(text)
    /\ \A k \in 1..Len(p) : Lower(text[i + k]) = Lower(p[k])

\* length of the run of characters from offset i that are not in `stop`
RECURSIVE RunOutside(_, _, _)
RunOutside(text, i, stop) ==
    IF i < Len(text) /\ text[i + 1] \notin stop THEN 1 + RunOutside(text, i + 1, stop)
    ELSE 0

\* urlPattern = /https?:\/\/[^\s<>[\]]+/gi at offset i: the length of the match, or 0
UrlMatchLen(text, i) ==
    LET scheme == IF LiteralAt(text, i, <<"h", "t", "t", "p", "s", ":", "/", "/">>) THEN 8
                  ELSE IF LiteralAt(text, i, <<"h", "t", "t", "p", ":", "/", "/">>) THEN 7
                  ELSE 0
        run == RunOutside(text, i + scheme, UrlStop)
    IN IF scheme = 0 \/ run = 0 THEN 0 ELSE scheme + run

\* wikiLinkPattern = /\[\[[^\]]+\]\]/g at offset i: the length of the match, or 0
WikiMatchLen(text, i) ==
    LET run == RunOutside(text, i + 2, {"]"})
    IN IF /\ LiteralAt(text, i, <<"[", "[">>)
          /\ run > 0
          /\ LiteralAt(text, i + 2 + run, <<"]", "]">>)
       THEN 2 + run + 2
       ELSE 0

\* `__PLACEHOLDER_${n}__`
PlaceholderToken(n) == <<"_", "_", "PLACEHOLDER", "_", Digits[n + 1], "_", "_">>

\* text.replace(pattern, match => { placeholders.push(match); return token }) for the
\* URL pattern (kind "url") or the wiki-link pattern (kind "wiki"), from offset i on:
\* the rewritten rest of the text and the placeholders after it
RECURSIVE Protect(_, _, _, _)
Protect(text, i, placeholders, kind) ==
    IF i >= Len(text) THEN [text |-> <<>>, placeholders |-> placeholders]
    ELSE LET n == IF kind = "url" THEN UrlMatchLen(text, i) ELSE WikiMatchLen(text, i)
             step == IF n > 0 THEN n ELSE 1
             rest == Protect(text, i + step,
                             IF n > 0 THEN Append(placeholders, Substring(text, i, i + n))
                             ELSE placeholders, kind)
         IN [text |-> (IF n > 0 THEN PlaceholderToken(Len(placeholders))
                       ELSE <<text[i + 1]>>) \o rest.text,
             placeholders |-> rest.placeholders]

\* the escaped name under gi at offset i, without the lookbehind and the lookahead
NameMatchAtAnywhere(text, i, escaped) ==
    /\ i + Len(escaped) <= Len(text)
    /\ \A k \in 1..Len(escaped) : ElemMatchesIgnoreCase(escaped[k], text[i + k])

\* matchPattern = (?<![\[\w])escaped(?![\]\w]) under gi, at offset i
NameMatchAt(text, i, escaped) ==
    /\ i + Len(escaped) <= Len(text)
    /\ \A k \in 1..Len(escaped) : ElemMatchesIgnoreCase(escaped[k], text[i + k])
    /\ (i = 0 \/ text[i] \notin (WordChars \cup {"["}))
    /\ (i + Len(escaped) = Len(text)
        \/ text[i + Len(escaped) + 1] \notin (WordChars \cup {"]"}))

\* the replacement callback of the linking loop
LinkFor(originalName, match) ==
    IF match # originalName
    THEN <<"[", "[">> \o originalName \o <<"|">> \o match \o <<"]", "]">>
    ELSE <<"[", "[">> \o originalName \o <<"]", "]">>

\* protectedText.replace(cached.matchPattern, ...) from offset i on
RECURSIVE LinkName(_, _, _)
LinkName(text, i, cached) ==
    IF i >= Len(text) THEN <<>>
    ELSE IF NameMatchAt(text, i, cached.matchPattern)
         THEN LinkFor(cached.originalName,
                      Substring(text, i, i + Len(cached.matchPattern)))
              \o LinkName(text, i + Len(cached.matchPattern), cached)
    ELSE <<text[i + 1]>> \o LinkName(text, i + 1, cached)

\* the for loop over cachedPatterns, from the k-th pattern on
RECURSIVE LinkAll(_, _, _)
LinkAll(text, patterns, k) ==
    IF k > Len(patterns) THEN text
    ELSE LinkAll(LinkName(text, 0, patterns[k]), patterns, k + 1)

\* parseInt(index, 10) of the digits text[i+1..i+n]
RECURSIVE ParseInt(_, _, _)
ParseInt(text, i, n) ==
    IF n = 0 THEN 0
    ELSE 10 * ParseInt(text, i, n - 1)
         + ((CHOOSE d \in 1..Len(Digits) : Digits[d] = text[i + n]) - 1)

\* \d+ at offset i: the length of the run of digits
RECURSIVE DigitRun(_, _)
DigitRun(text, i) ==
    IF i < Len(text) /\ text[i + 1] \in Range(Digits) THEN 1 + DigitRun(text, i + 1) ELSE 0

\* /__PLACEHOLDER_(\d+)__/g at offset i: the number of digits of the match, or 0
TokenDigits(text, i) ==
    LET run == DigitRun(text, i + 4)
    IN IF /\ LiteralAt(text, i, <<"_", "_", "PLACEHOLDER", "_">>)
          /\ run > 0
          /\ LiteralAt(text, i + 4 + run, <<"_", "_">>)
       THEN run ELSE 0

\* the restoring replace, one pass from offset i on; placeholders[k] of an index the
\* array does not have is undefined, which replace writes as "undefined"
RECURSIVE Restore(_, _, _)
Restore(text, i, placeholders) ==
    IF i >= Len(text) THEN <<>>
    ELSE LET n == TokenDigits(text, i)
             index == ParseInt(text, i + 4, n)
         IN IF n > 0
            THEN (IF index < Len(placeholders) THEN placeholders[index + 1]
                  ELSE <<"undefined">>)
                 \o Restore(text, i + 4 + n + 2, placeholders)
            ELSE <<text[i + 1]>> \o Restore(text, i + 1, placeholders)

\* processText(text) with the compiled patterns
processText(text, patterns) ==
    IF text = <<>> \/ Len(patterns) = 0 THEN text
    ELSE LET urls == Protect(text, 0, <<>>, "url")
             wikis == Protect(urls.text, 0, urls.placeholders, "wiki")
         IN Restore(LinkAll(wikis.text, patterns, 1), 0, wikis.placeholders)

(***************************************************************************)
(* AutoLinker: the index                                                   *)
(***************************************************************************)
NAnn == <<"A", "n", "n">>
NLee == <<"L", "e", "e">>
NAnnLee == NAnn \o <<" ">> \o NLee
NAnnLeeRoy == NAnnLee \o <<" ", "R", "o", "y">>

\* the markdown files the vault can hold, in the order getMarkdownFiles lists them
LinkerFiles == <<NAnnLee, NLee, NAnnLeeRoy>>

NoCall == [text |-> <<"<none>">>, result |-> <<"<none>">>]

\* Map.prototype.set / delete / get on noteNamesLower
MapSet(map, key, value) == {e \in map : e.key # key} \cup {[key |-> key, value |-> value]}

MapDelete(map, key) == {e \in map : e.key # key}

MapHas(map, key) == \E e \in map : e.key = key

MapGet(map, key) == (CHOOSE e \in map : e.key = key).value

\* Set.prototype.add / delete on noteNames, which iterates in insertion order
SetAdd(names, name) == IF name \in Range(names) THEN names ELSE Append(names, name)

SetDelete(names, name) == SelectSeq(names, LAMBDA n : n # name)

\* .sort((a, b) => b.length - a.length): stable, longest first
RECURSIVE InsertByLength(_, _)
InsertByLength(sorted, name) ==
    IF Len(sorted) = 0 THEN <<name>>
    ELSE IF Len(sorted[1]) >= Len(name) THEN <<sorted[1]>> \o InsertByLength(Tail(sorted), name)
    ELSE <<name>> \o sorted

RECURSIVE SortByLength(_)
SortByLength(names) ==
    IF Len(names) = 0 THEN <<>>
    ELSE InsertByLength(SortByLength(SubSeq(names, 1, Len(names) - 1)), names[Len(names)])

\* rebuildSortedList() without the .filter(name => name.length > 2)
rebuildSortedListUnfiltered(names, lower) ==
    LET sorted == SortByLength(names)
    IN [k \in 1..Len(sorted) |->
           [name |-> sorted[k],
            originalName |-> IF MapHas(lower, LowerSeq(sorted[k]))
                             THEN MapGet(lower, LowerSeq(sorted[k])) ELSE sorted[k],
            matchPattern |-> escapeRegex(sorted[k])]]

\* rebuildSortedList(): the new cachedPatterns
rebuildSortedList(names, lower) ==
    LET sorted == SortByLength(SelectSeq(names, LAMBDA n : Len(n) > 2))
    IN [k \in 1..Len(sorted) |->
           [name |-> sorted[k],
            originalName |-> IF MapHas(lower, LowerSeq(sorted[k]))
                             THEN MapGet(lower, LowerSeq(sorted[k])) ELSE sorted[k],
            matchPattern |-> escapeRegex(sorted[k])]]

\* rebuildTimer = null
NoTimer == 0

\* the handles a timer of the model can have
TimerIds == 1..3

\* setTimeout(...): the handles count up (here cyclically); the new handle is the first
\* after `last` that no pending timer has
SetTimeout(queue, last) ==
    LET candidate(k) == ((last + k - 1) % Cardinality(TimerIds)) + 1
        first == CHOOSE k \in TimerIds :
                     /\ candidate(k) \notin queue
                     /\ \A j \in 1..(k - 1) : candidate(j) \in queue
    IN candidate(first)

\* scheduleRebuild() without the clearTimeout of the pending timer
scheduleRebuildNoClear(queue, timer) ==
    [timers |-> queue \cup {SetTimeout(queue, timer)}, rebuildTimer |-> SetTimeout(queue, timer)]

\* scheduleRebuild(): the timer queue and the handle after the call
scheduleRebuild(queue, timer) ==
    LET cleared == IF timer # NoTimer THEN queue \ {timer} ELSE queue
        id == SetTimeout(cleared, timer)
    IN [timers |-> cleared \cup {id}, rebuildTimer |-> id]

\* addNote(name): the index, the timer queue and the handle after the call
addNote(names, lower, queue, timer, name) ==
    IF name \notin Range(names)
    THEN [noteNames |-> SetAdd(names, name),
          noteNamesLower |-> MapSet(lower, LowerSeq(name), name),
          timers |-> scheduleRebuild(queue, timer).timers,
          rebuildTimer |-> scheduleRebuild(queue, timer).rebuildTimer]
    ELSE [noteNames |-> names, noteNamesLower |-> lower, timers |-> queue,
          rebuildTimer |-> timer]

\* removeNote(name) without the scheduleRebuild() call
removeNoteNoRebuild(names, lower, queue, timer, name) ==
    [noteNames |-> SetDelete(names, name), noteNamesLower |-> MapDelete(lower, LowerSeq(name)),
     timers |-> queue, rebuildTimer |-> timer]

\* removeNote(name): the index, the timer queue and the handle after the call
removeNote(names, lower, queue, timer, name) ==
    IF name \in Range(names)
    THEN [noteNames |-> SetDelete(names, name),
          noteNamesLower |-> MapDelete(lower, LowerSeq(name)),
          timers |-> scheduleRebuild(queue, timer).timers,
          rebuildTimer |-> scheduleRebuild(queue, timer).rebuildTimer]
    ELSE [noteNames |-> names, noteNamesLower |-> lower, timers |-> queue,
          rebuildTimer |-> timer]

\* noteExists(name)
noteExists(lower, name) == MapHas(lower, LowerSeq(name))

\* getNoteCount()
getNoteCount(names) == Len(names)

\* the folder parts a path of the model can start with
FolderTokens == {"A/", "B/"}

\* file.basename, and oldPath.split('/').pop()?.replace(/\.md$/, ''): a path is its
\* folder parts followed by the characters of the basename
RECURSIVE Basename(_)
Basename(path) ==
    IF Len(path) > 0 /\ path[1] \in FolderTokens THEN Basename(Tail(path)) ELSE path

\* vault.getMarkdownFiles(): the files present, in the order the vault lists them
Listing(order, present) == SelectSeq(order, LAMBDA n : n \in present)

\* the loop of buildInitialIndex over the listed files from the k-th on
RECURSIVE IndexFiles(_, _, _, _)
IndexFiles(names, lower, listing, k) ==
    IF k > Len(listing) THEN [noteNames |-> names, noteNamesLower |-> lower]
    ELSE IndexFiles(SetAdd(names, Basename(listing[k])),
                    MapSet(lower, LowerSeq(Basename(listing[k])), Basename(listing[k])),
                    listing, k + 1)

\* onLayoutReady: buildInitialIndex() over the listing getMarkdownFiles() returns
LayoutReady(order) ==
    /\ ~indexBuilt
    /\ \E ix \in {IndexFiles(noteNames, noteNamesLower, Listing(order, mdFiles), 1)} :
          /\ noteNames' = ix.noteNames
          /\ noteNamesLower' = ix.noteNamesLower
          /\ cachedPatterns' = rebuildSortedList(ix.noteNames, ix.noteNamesLower)
    /\ indexBuilt' = TRUE
    /\ processed' = NoCall
    /\ UNCHANGED <<mdFiles, rebuildTimer, timers, loaded, settings, logVars, pluginVars,
                   tabVars>>

\* vault 'create' of a markdown file
VaultCreate(path) ==
    /\ loaded
    /\ path \notin mdFiles
    /\ mdFiles' = mdFiles \cup {path}
    /\ \E ix \in {addNote(noteNames, noteNamesLower, timers, rebuildTimer,
                          Basename(path))} :
          /\ noteNames' = ix.noteNames
          /\ noteNamesLower' = ix.noteNamesLower
          /\ timers' = ix.timers
          /\ rebuildTimer' = ix.rebuildTimer
    /\ processed' = NoCall
    /\ UNCHANGED <<cachedPatterns, indexBuilt, loaded, settings, logVars, pluginVars, tabVars>>

\* vault 'delete' of a markdown file
VaultDelete(path) ==
    /\ loaded
    /\ path \in mdFiles
    /\ mdFiles' = mdFiles \ {path}
    /\ \E ix \in {removeNote(noteNames, noteNamesLower, timers, rebuildTimer,
                             Basename(path))} :
          /\ noteNames' = ix.noteNames
          /\ noteNamesLower' = ix.noteNamesLower
          /\ timers' = ix.timers
          /\ rebuildTimer' = ix.rebuildTimer
    /\ processed' = NoCall
    /\ UNCHANGED <<cachedPatterns, indexBuilt, loaded, settings, logVars, pluginVars, tabVars>>

\* vault 'rename' of a markdown file: removeNote(old) then addNote(new)
VaultRename(old, new) ==
    /\ loaded
    /\ old \in mdFiles
    /\ new \notin mdFiles
    /\ mdFiles' = (mdFiles \ {old}) \cup {new}
    /\ \E rm \in {removeNote(noteNames, noteNamesLower, timers, rebuildTimer,
                             Basename(old))} :
       \E ix \in {addNote(rm.noteNames, rm.noteNamesLower, rm.timers, rm.rebuildTimer,
                          Basename(new))} :
          /\ noteNames' = ix.noteNames
          /\ noteNamesLower' = ix.noteNamesLower
          /\ timers' = ix.timers
          /\ rebuildTimer' = ix.rebuildTimer
    /\ processed' = NoCall
    /\ UNCHANGED <<cachedPatterns, indexBuilt, loaded, settings, logVars, pluginVars, tabVars>>

\* a timer set by scheduleRebuild fires: its callback runs
RebuildTimerFires(id) ==
    /\ id \in timers
    /\ timers' = timers \ {id}
    /\ rebuildTimer' = NoTimer
    /\ cachedPatterns' = rebuildSortedList(noteNames, noteNamesLower)
    /\ processed' = NoCall
    /\ UNCHANGED <<mdFiles, noteNames, noteNamesLower, indexBuilt, loaded, settings, logVars,
                   pluginVars, tabVars>>

\* the plugin unloads and with it its child component: the registered vault events are
\* detached; the AutoLinker has no onunload of its own
Unload ==
    /\ loaded
    /\ loaded' = FALSE
    /\ processed' = NoCall
    /\ UNCHANGED <<mdFiles, noteNames, noteNamesLower, cachedPatterns, indexBuilt,
                   rebuildTimer, timers, settings, logVars, pluginVars, tabVars>>

\* a caller runs processText(text)
ProcessText(text) ==
    /\ processed' = [text |-> text, result |-> processText(text, cachedPatterns)]
    /\ UNCHANGED <<mdFiles, noteNames, noteNamesLower, cachedPatterns, indexBuilt,
                   rebuildTimer, timers, loaded, settings, logVars, pluginVars, tabVars>>

\* the AutoLinker as constructed and loaded, with an empty vault
LinkerIdle ==
    /\ mdFiles = {}
    /\ noteNames = <<>>
    /\ noteNamesLower = {}
    /\ cachedPatterns = <<>>
    /\ indexBuilt = FALSE
    /\ rebuildTimer = NoTimer
    /\ timers = {}
    /\ loaded = TRUE
    /\ processed = NoCall

(***************************************************************************)
(* WorkLogPlugin.addEntry, one step per awaited LogManager call            *)
(***************************************************************************)
NoNotice == <<>>
NoEntry == [date |-> "", category |-> "", description |-> <<>>, relatedNote |-> "",
            timestamp |-> 0]

\* the error of a vault call that rejects
IoError == <<"EIO">>

\* showSuccessNotice(message): the message and the View link
showSuccessNotice(message) == message \o <<" ", "View">>

AddedBothNotice(s, entry) ==
    showSuccessNotice(<<"Added ", getCategoryLabel(s.categories, entry.category),
                        " to work log and [[", entry.relatedNote, "]]">>)

AddedLogNotice(s, entry) ==
    showSuccessNotice(<<"Added ", getCategoryLabel(s.categories, entry.category),
                        " entry for ", entry.date>>)

PartialNotice(entry, error) ==
    <<"Added to work log, but failed to add to [[", entry.relatedNote, "]]: ", "Error: ">>
    \o error

FailedNotice == <<"Failed to add entry. Check console for details.">>

\* addEntry after `await this.logManager.addEntry(entry)` went wrong but the related
\* note is written all the same
afterPrimaryIgnoringError(s, entry, error) ==
    IF entry.relatedNote # ""
    THEN [pc |-> "related", notice |-> NoNotice, rejected |-> FALSE]
    ELSE [pc |-> "idle", notice |-> AddedLogNotice(s, entry), rejected |-> FALSE]

\* addEntry after `await this.logManager.addEntry(entry)` settled with `error`
afterPrimary(s, entry, error) ==
    IF error # NoError
    THEN [pc |-> "idle", notice |-> FailedNotice, rejected |-> TRUE]
    ELSE IF entry.relatedNote # ""
         THEN [pc |-> "related", notice |-> NoNotice, rejected |-> FALSE]
    ELSE [pc |-> "idle", notice |-> AddedLogNotice(s, entry), rejected |-> FALSE]

\* addEntry after `await this.logManager.addToRelatedNote(...)` settled with `error`
afterRelated(s, entry, error) ==
    IF error # NoError
    THEN [pc |-> "idle", notice |-> PartialNotice(entry, error), rejected |-> FALSE]
    ELSE [pc |-> "idle", notice |-> AddedBothNotice(s, entry), rejected |-> FALSE]

\* the modal's onSubmit calls addEntry(entry)
PluginAddEntry(entry) ==
    /\ pluginPc = "idle"
    /\ Len(calls) < MaxPluginCalls
    /\ pluginPc' = "primary"
    /\ pluginEntry' = entry
    /\ UNCHANGED <<lastNotice, rejected, modals, settings, logVars, linkerVars, tabVars>>

\* the primary-log call settles (with the error LogManager.addEntry itself raises, if any)
PrimaryWriteSettles ==
    /\ pluginPc = "primary"
    /\ LogManagerAddEntry(pluginEntry)
    /\ \E next \in {afterPrimary(settings, pluginEntry, calls'[Len(calls')].error)} :
          /\ pluginPc' = next.pc
          /\ lastNotice' = IF next.notice = NoNotice THEN lastNotice ELSE next.notice
          /\ rejected' = next.rejected
    /\ UNCHANGED <<pluginEntry, modals, linkerVars, tabVars>>

\* the primary-log call rejects in the vault before anything is written
PrimaryWriteRejects ==
    /\ pluginPc = "primary"
    /\ calls' = Append(calls, Call("addEntry", "", pluginEntry, Absent, Absent, IoError))
    /\ \E next \in {afterPrimary(settings, pluginEntry, IoError)} :
          /\ pluginPc' = next.pc
          /\ lastNotice' = IF next.notice = NoNotice THEN lastNotice ELSE next.notice
          /\ rejected' = next.rejected
    /\ UNCHANGED <<pluginEntry, settings, files, folders, linkDest, cachedWorkLogPattern,
                   cachedRelatedNotePattern, cachedNextHeadingPattern, formatted,
                   modals, linkerVars, tabVars>>

\* the related-note call settles (with the error addToRelatedNote itself raises, if any)
RelatedWriteSettles ==
    /\ pluginPc = "related"
    /\ LogManagerAddToRelatedNote(pluginEntry.relatedNote, pluginEntry)
    /\ \E next \in {afterRelated(settings, pluginEntry, calls'[Len(calls')].error)} :
          /\ pluginPc' = next.pc
          /\ lastNotice' = next.notice
          /\ rejected' = next.rejected
    /\ UNCHANGED <<pluginEntry, modals, linkerVars, tabVars>>

\* the related-note call rejects in the vault before anything is written
RelatedWriteRejects ==
    /\ pluginPc = "related"
    /\ calls' = Append(calls, Call("addToRelatedNote", pluginEntry.relatedNote, pluginEntry,
                                   Absent, Absent, IoError))
    /\ \E next \in {afterRelated(settings, pluginEntry, IoError)} :
          /\ pluginPc' = next.pc
          /\ lastNotice' = next.notice
          /\ rejected' = next.rejected
    /\ UNCHANGED <<pluginEntry, settings, files, folders, linkDest, cachedWorkLogPattern,
                   cachedRelatedNotePattern, cachedNextHeadingPattern, formatted,
                   modals, linkerVars, tabVars>>

(***************************************************************************)
(* EntryModal and TaskModal.  An entry modal is opened by openEntryModal   *)
(* and its onSubmit is WorkLogPlugin.addEntry; the onSubmit of a task      *)
(* modal is a callback that resolves or rejects.  A modal's addEntry call  *)
(* is one step per awaited vault call.                                     *)
(***************************************************************************)
\* the modal instances: the first is an entry modal, the second is either
ModalIds == {1, 2}

\* a modal not constructed yet
NewModal ==
    [kind |-> "", state |-> "new", isSubmitting |-> FALSE, disabled |-> FALSE, description |-> <<>>,
     relatedNote |-> "", selectedDate |-> "", pc |-> "idle", entry |-> NoEntry,
     content |-> Absent, attempts |-> <<>>, last |-> "", urgent |-> FALSE,
     important |-> FALSE, urgencyAutoSet |-> FALSE, dueDate |-> {},
     taskUrgencyThresholdDays |-> 3, urgentBy |-> ""]

\* the modals whose onSubmit call is between its vault.read and the end of its
\* vault.modify of the primary log
InFlightPrimary(ms) == {m \in ModalIds : ms[m].pc \in {"read", "modify"}}

\* openEntryModal(): new EntryModal(...).open(), and the user's input in the form
OpenEntryModal(m, date, description, relatedNote) ==
    /\ modals[m].state = "new"
    /\ \A k \in ModalIds : modals[k].state # "open"
    /\ modals' = [modals EXCEPT ![m].kind = "entry", ![m].state = "open",
                                ![m].description = description,
                                ![m].relatedNote = relatedNote, ![m].selectedDate = date]
    /\ UNCHANGED <<pluginPc, pluginEntry, lastNotice, rejected>>
    /\ UNCHANGED <<settings, logVars, linkerVars, tabVars>>

\* new TaskModal(...).open(), and the user's input in the form
OpenTaskModal(m, description, threshold) ==
    /\ modals[m].state = "new"
    /\ \A k \in ModalIds : modals[k].state # "open"
    /\ modals' = [modals EXCEPT ![m].kind = "task", ![m].state = "open",
                                ![m].description = description,
                                ![m].selectedDate = Dates[1],
                                ![m].taskUrgencyThresholdDays = threshold]
    /\ UNCHANGED <<pluginPc, pluginEntry, lastNotice, rejected>>
    /\ UNCHANGED <<settings, logVars, linkerVars, tabVars>>

\* the Cancel button or the Escape key: this.close()
Cancel(m) ==
    /\ modals[m].state = "open"
    /\ modals' = [modals EXCEPT ![m].state = "dismissed"]
    /\ UNCHANGED <<pluginPc, pluginEntry, lastNotice, rejected>>
    /\ UNCHANGED <<settings, logVars, linkerVars, tabVars>>

\* submit() without the isSubmitting test
submitUnguarded(ms, m, patterns) ==
    IF Trim(ms[m].description) = <<>>
    THEN [ms EXCEPT ![m].last = "required"]
    ELSE [ms EXCEPT ![m].isSubmitting = TRUE, ![m].disabled = TRUE,
                    ![m].entry = [date |-> ms[m].selectedDate, category |-> "customer",
                                  description |-> processText(Trim(ms[m].description),
                                                              patterns),
                                  relatedNote |-> ms[m].relatedNote, timestamp |-> 870],
                    ![m].pc = IF ms[m].kind = "task" THEN "task" ELSE "read",
                    ![m].attempts = Append(ms[m].attempts, "inflight"),
                    ![m].last = "started"]

\* submit() up to its `await this.onSubmit(entry)`
submit(ms, m, patterns) ==
    IF ms[m].isSubmitting THEN [ms EXCEPT ![m].last = "blocked"]
    ELSE IF Trim(ms[m].description) = <<>>
    THEN [ms EXCEPT ![m].last = "required"]
    ELSE [ms EXCEPT ![m].isSubmitting = TRUE, ![m].disabled = TRUE,
                    ![m].entry = [date |-> ms[m].selectedDate, category |-> "customer",
                                  description |-> processText(Trim(ms[m].description),
                                                              patterns),
                                  relatedNote |-> ms[m].relatedNote, timestamp |-> 870],
                    ![m].pc = IF ms[m].kind = "task" THEN "task" ELSE "read",
                    ![m].attempts = Append(ms[m].attempts, "inflight"),
                    ![m].last = "started"]

\* a click on the submit button or Cmd/Ctrl+Enter, delivered to modal m
Submit(m) ==
    /\ modals[m].state = "open" \/ modals[m].isSubmitting
    /\ modals[m].isSubmitting \/ Len(modals[m].attempts) < MaxAttempts
    /\ modals' = submit(modals, m, cachedPatterns)
    /\ UNCHANGED <<pluginPc, pluginEntry, lastNotice, rejected>>
    /\ UNCHANGED <<settings, logVars, linkerVars, tabVars>>

\* the last attempt of modal m ends with `outcome`
Settle(ms, m, outcome) ==
    [ms EXCEPT ![m].attempts = [ms[m].attempts EXCEPT ![Len(ms[m].attempts)] = outcome],
               ![m].pc = "idle"]

\* submit() after `await this.onSubmit(entry)` resolved: this.close()
submitResolved(ms, m) ==
    [Settle(ms, m, "ok") EXCEPT ![m].state = IF ms[m].state = "open" THEN "submitted"
                                             ELSE ms[m].state]

\* submit() without the catch branch: a rejected onSubmit leaves the modal as it is
submitRejectedNoCatch(ms, m) == Settle(ms, m, "failed")

\* submit() after `await this.onSubmit(entry)` rejected: the catch branch
submitRejected(ms, m) ==
    [Settle(ms, m, "failed") EXCEPT ![m].isSubmitting = FALSE, ![m].disabled = FALSE]

\* LogManager.addEntry of modal m: getOrCreateLogFile() and vault.read(file)
PrimaryRead(m) ==
    /\ modals[m].pc = "read"
    /\ AbstractKind(files, folders, settings.logFilePath) # "folder"
    /\ \E content \in {IF AbstractKind(files, folders, settings.logFilePath) = "none"
                       THEN LogHeader ELSE files[settings.logFilePath]} :
          /\ files' = [files EXCEPT ![settings.logFilePath] = content]
          /\ modals' = [modals EXCEPT ![m].pc = "modify", ![m].content = content]
    /\ UNCHANGED <<settings, folders, linkDest, cachedWorkLogPattern,
                   cachedRelatedNotePattern, cachedNextHeadingPattern, calls, formatted>>
    /\ UNCHANGED <<pluginPc, pluginEntry, lastNotice, rejected>>
    /\ UNCHANGED <<linkerVars, tabVars>>

\* LogManager.addEntry of modal m: insertEntryToLog(content, entry) and
\* vault.modify(file, newContent); then addEntry of the plugin goes on
PrimaryModify(m) ==
    /\ modals[m].pc = "modify"
    /\ \E entry \in {modals[m].entry} :
       \E datePattern \in {buildDatePattern(settings, cachedWorkLogPattern, TRUE)} :
       \E nextPattern \in {IF cachedNextHeadingPattern # NoPattern
                           THEN cachedNextHeadingPattern
                           ELSE CompileNextHeadingPattern(settings)} :
       \E newContent \in {insertEntryToLog(settings, datePattern, nextPattern,
                                           modals[m].content, entry)} :
          /\ files' = [files EXCEPT ![settings.logFilePath] = newContent]
          /\ cachedWorkLogPattern' = datePattern
          /\ cachedNextHeadingPattern' =
                 IF UsesNextHeadingPattern(settings, modals[m].content, entry)
                 THEN nextPattern ELSE cachedNextHeadingPattern
          /\ calls' = Append(calls, Call("addEntry", "", entry, modals[m].content,
                                         newContent, NoError))
          /\ \E next \in {afterPrimary(settings, entry, NoError)} :
                /\ lastNotice' = IF next.notice = NoNotice THEN lastNotice
                                 ELSE next.notice
                /\ modals' = IF next.pc = "related"
                             THEN [modals EXCEPT ![m].pc = "related"]
                             ELSE submitResolved(modals, m)
    /\ UNCHANGED <<settings, folders, linkDest, cachedRelatedNotePattern, formatted>>
    /\ UNCHANGED <<pluginPc, pluginEntry, rejected>>
    /\ UNCHANGED <<linkerVars, tabVars>>

\* LogManager.addEntry of modal m rejects in the vault before anything is written:
\* the plugin shows the failure notice and rethrows
PrimaryRejects(m) ==
    /\ modals[m].pc \in {"read", "modify"}
    /\ calls' = Append(calls, Call("addEntry", "", modals[m].entry, Absent, Absent,
                                   IoError))
    /\ lastNotice' = afterPrimary(settings, modals[m].entry, IoError).notice
    /\ modals' = submitRejected(modals, m)
    /\ UNCHANGED <<settings, files, folders, linkDest, cachedWorkLogPattern,
                   cachedRelatedNotePattern, cachedNextHeadingPattern, formatted>>
    /\ UNCHANGED <<pluginPc, pluginEntry, rejected>>
    /\ UNCHANGED <<linkerVars, tabVars>>

\* the related-note call of modal m settles (with the error addToRelatedNote itself
\* raises, if any): the plugin catches it, so onSubmit resolves
RelatedSettles(m) ==
    /\ modals[m].pc = "related"
    /\ LogManagerAddToRelatedNote(modals[m].entry.relatedNote, modals[m].entry)
    /\ lastNotice' = afterRelated(settings, modals[m].entry,
                                  calls'[Len(calls')].error).notice
    /\ modals' = submitResolved(modals, m)
    /\ UNCHANGED <<pluginPc, pluginEntry, rejected>>
    /\ UNCHANGED <<linkerVars, tabVars>>

\* the related-note call of modal m rejects in the vault before anything is written
RelatedRejects(m) ==
    /\ modals[m].pc = "related"
    /\ calls' = Append(calls, Call("addToRelatedNote", modals[m].entry.relatedNote,
                                   modals[m].entry, Absent, Absent, IoError))
    /\ lastNotice' = afterRelated(settings, modals[m].entry, IoError).notice
    /\ modals' = submitResolved(modals, m)
    /\ UNCHANGED <<settings, files, folders, linkDest, cachedWorkLogPattern,
                   cachedRelatedNotePattern, cachedNextHeadingPattern, formatted>>
    /\ UNCHANGED <<pluginPc, pluginEntry, rejected>>
    /\ UNCHANGED <<linkerVars, tabVars>>

\* the onSubmit callback of task modal m resolves
TaskWriteSettles(m) ==
    /\ modals[m].pc = "task"
    /\ modals' = submitResolved(modals, m)
    /\ UNCHANGED <<pluginPc, pluginEntry, lastNotice, rejected>>
    /\ UNCHANGED <<settings, logVars, linkerVars, tabVars>>

\* the onSubmit callback of task modal m rejects
TaskWriteRejects(m) ==
    /\ modals[m].pc = "task"
    /\ modals' = submitRejected(modals, m)
    /\ UNCHANGED <<pluginPc, pluginEntry, lastNotice, rejected>>
    /\ UNCHANGED <<settings, logVars, linkerVars, tabVars>>

(***************************************************************************)
(* TaskModal: priority toggles and due date.  A due date is kept as the    *)
(* number of days from today to it, in a set that is empty for ''.         *)
(***************************************************************************)
\* the days a quick button or the date picker can give: yesterday to next week
DueDays == {-1, 0, 1, 3, 4, 7}

\* checkUrgencyThreshold() that withdraws the urgency whoever set it
checkUrgencyThresholdAlwaysWithdraw(f) ==
    IF f.dueDate = {}
    THEN [f EXCEPT !.urgent = FALSE, !.urgencyAutoSet = FALSE]
    ELSE IF \E daysUntilDue \in f.dueDate : daysUntilDue <= f.taskUrgencyThresholdDays
         THEN IF ~f.urgent THEN [f EXCEPT !.urgent = TRUE, !.urgencyAutoSet = TRUE] ELSE f
    ELSE [f EXCEPT !.urgent = FALSE, !.urgencyAutoSet = FALSE]

\* checkUrgencyThreshold() on the fields f of a task modal
checkUrgencyThreshold(f) ==
    IF f.dueDate = {}
    THEN IF f.urgencyAutoSet THEN [f EXCEPT !.urgent = FALSE, !.urgencyAutoSet = FALSE]
         ELSE f
    ELSE IF \E daysUntilDue \in f.dueDate : daysUntilDue <= f.taskUrgencyThresholdDays
         THEN IF ~f.urgent THEN [f EXCEPT !.urgent = TRUE, !.urgencyAutoSet = TRUE] ELSE f
    ELSE IF f.urgencyAutoSet THEN [f EXCEPT !.urgent = FALSE, !.urgencyAutoSet = FALSE]
         ELSE f

\* setDueDate(value, buttons, activeBtn)
setDueDate(f, value) == checkUrgencyThreshold([f EXCEPT !.dueDate = value])

\* who turned the urgency on, after a handler took the fields from f to g
UrgentBy(f, g, handler) ==
    IF ~g.urgent THEN ""
    ELSE IF handler = "urgent" THEN "user"
    ELSE IF ~f.urgent THEN "auto"
    ELSE f.urgentBy

\* the change listener of the date picker: setDueDate(dateInput.value, buttons, null)
PickDueDate(m, value) ==
    /\ modals[m].kind = "task"
    /\ modals[m].state = "open"
    /\ \E g \in {setDueDate(modals[m], value)} :
          modals' = [modals EXCEPT ![m] = [g EXCEPT !.last = "due",
                                                    !.urgentBy = UrgentBy(modals[m], g, "due")]]
    /\ UNCHANGED <<pluginPc, pluginEntry, lastNotice, rejected>>
    /\ UNCHANGED <<settings, logVars, linkerVars, tabVars>>

\* the click listener of a quick date button: the date again clears the due date
ClickQuickDate(m, days) ==
    /\ modals[m].kind = "task"
    /\ modals[m].state = "open"
    /\ days >= 0
    /\ \E g \in {setDueDate(modals[m], IF modals[m].dueDate = {days} THEN {} ELSE {days})} :
          modals' = [modals EXCEPT ![m] = [g EXCEPT !.last = "due",
                                                    !.urgentBy = UrgentBy(modals[m], g, "due")]]
    /\ UNCHANGED <<pluginPc, pluginEntry, lastNotice, rejected>>
    /\ UNCHANGED <<settings, logVars, linkerVars, tabVars>>

\* the click listener of the Urgent button
ToggleUrgent(m) ==
    /\ modals[m].kind = "task"
    /\ modals[m].state = "open"
    /\ \E g \in {[modals[m] EXCEPT !.urgent = ~modals[m].urgent,
                                   !.urgencyAutoSet = FALSE]} :
          modals' = [modals EXCEPT ![m] = [g EXCEPT !.last = "urgent",
                                                    !.urgentBy = UrgentBy(modals[m], g,
                                                                          "urgent")]]
    /\ UNCHANGED <<pluginPc, pluginEntry, lastNotice, rejected>>
    /\ UNCHANGED <<settings, logVars, linkerVars, tabVars>>

\* the click listener of the Important button
ToggleImportant(m) ==
    /\ modals[m].kind = "task"
    /\ modals[m].state = "open"
    /\ modals' = [modals EXCEPT ![m].important = ~modals[m].important,
                                ![m].last = "important"]
    /\ UNCHANGED <<pluginPc, pluginEntry, lastNotice, rejected>>
    /\ UNCHANGED <<settings, logVars, linkerVars, tabVars>>

\* the plugin with no addEntry call made and no modal opened
PluginIdle ==
    /\ pluginPc = "idle"
    /\ pluginEntry = NoEntry
    /\ lastNotice = NoNotice
    /\ rejected = FALSE
    /\ modals = [m \in ModalIds |-> NewModal]

(***************************************************************************)
(* WorkLogPlugin.loadSettings and the category controls of the settings    *)
(* tab.  A category is modelled by its id and label; settings.categories   *)
(* is a JavaScript array, so an element may be undefined.                  *)
(***************************************************************************)
Undefined == [undefined |-> TRUE]

\* arr[i]
At(arr, i) == IF i >= 0 /\ i < Len(arr) THEN arr[i + 1] ELSE Undefined

\* arr[i] = v, which extends the array when i is at or past its end
SetAt(arr, i, v) ==
    [k \in 1..(IF i + 1 > Len(arr) THEN i + 1 ELSE Len(arr)) |->
        IF k = i + 1 THEN v ELSE IF k <= Len(arr) THEN arr[k] ELSE Undefined]

\* [arr[i], arr[j]] = [arr[j], arr[i]]
Swap(arr, i, j) == SetAt(SetAt(arr, i, At(arr, j)), j, At(arr, i))

\* arr.splice(i, 1)
Splice(arr, i) ==
    IF i >= Len(arr) THEN arr
    ELSE [k \in 1..(Len(arr) - 1) |-> IF k <= i THEN arr[k] ELSE arr[k + 1]]

\* reading a property of some element of arr raises a TypeError
HasUndefined(arr) == \E k \in 1..Len(arr) : arr[k] = Undefined

\* categories.some(c => c.id === id): "yes", "no", or "throws" when an undefined
\* element comes before any match
RECURSIVE SomeId(_, _)
SomeId(arr, id) ==
    IF Len(arr) = 0 THEN "no"
    ELSE IF arr[1] = Undefined THEN "throws"
    ELSE IF arr[1].id = id THEN "yes"
    ELSE SomeId(Tail(arr), id)

\* the data saveData left on disk, as far as loadSettings repairs it; a field the
\* data lacks has its `has` flag off
SavedData == {
    [hasCategories |-> FALSE, categories |-> <<>>, hasDefault |-> FALSE,
     defaultCategory |-> ""],
    [hasCategories |-> TRUE, categories |-> <<>>, hasDefault |-> TRUE,
     defaultCategory |-> "customer"],
    [hasCategories |-> TRUE, categories |-> <<[id |-> "demo", label |-> "Demo"]>>,
     hasDefault |-> TRUE, defaultCategory |-> "customer"],
    [hasCategories |-> FALSE, categories |-> <<>>, hasDefault |-> TRUE,
     defaultCategory |-> "meeting"],
    [hasCategories |-> TRUE,
     categories |-> <<[id |-> "meeting", label |-> "Meeting"],
                      [id |-> "demo", label |-> "Demo"],
                      [id |-> "customer", label |-> "Customer"]>>,
     hasDefault |-> TRUE, defaultCategory |-> "customer"] }

\* loadSettings(): Object.assign({}, DEFAULT_SETTINGS, saved) and the two repairs
loadSettings(saved) ==
    LET assigned == IF saved.hasCategories THEN saved.categories
                    ELSE DEFAULT_SETTINGS.categories
        categories == IF Len(assigned) = 0 THEN DEFAULT_CATEGORIES ELSE assigned
        default == IF saved.hasDefault THEN saved.defaultCategory
                   ELSE DEFAULT_SETTINGS.defaultCategory
    IN [DEFAULT_SETTINGS EXCEPT
           !.categories = categories,
           !.defaultCategory = IF \E k \in 1..Len(categories) : categories[k].id = default
                               THEN default ELSE categories[1].id]

\* display(): the controls rendered from the settings.  The option loop of the
\* default-category dropdown reads cat.id of every element, so with an undefined
\* element display() throws before any category control exists.
EmptyView == [rendered |-> FALSE, cats |-> <<>>, default |-> "", prompts |-> {},
              forms |-> {}, gone |-> {}, add |-> FALSE]

display(s) ==
    IF HasUndefined(s.categories) THEN EmptyView
    ELSE [rendered |-> TRUE,
          cats |-> [k \in 1..Len(s.categories) |-> s.categories[k].id],
          default |-> s.defaultCategory, prompts |-> {}, forms |-> {}, gone |-> {},
          add |-> FALSE]

\* the rows of the rendered list that still show their buttons
ButtonRows == {i \in 0..(Len(view.cats) - 1) :
                  i \notin view.prompts /\ i \notin view.gone
                  /\ ~\E f \in view.forms : f.row = i}

\* value.toLowerCase().replace(/[^a-z0-9-]/g, '') for the ids typed in the model
SanitizeId(value) ==
    CASE value = "Meeting!" -> "meeting"
      [] value = "demo" -> "demo"
      [] value = "!" -> ""
      [] OTHER -> value

\* label.trim() is empty
IsBlank(label) == label \in {"", " "}

\* a handler that reached `await this.plugin.saveSettings()` with display() to follow
Awaits(categories, default) ==
    [categories |-> categories, defaultCategory |-> default, awaits |-> TRUE]

\* a handler that returned or threw before that, or has no display() to follow
Returns(categories, default) ==
    [categories |-> categories, defaultCategory |-> default, awaits |-> FALSE]

\* the Delete button of the confirmation prompt of row i
confirmDelete(categories, default, i) ==
    IF At(categories, i) = Undefined THEN Returns(categories, default)
    ELSE IF default # At(categories, i).id THEN Awaits(Splice(categories, i), default)
    ELSE IF At(Splice(categories, i), 0) = Undefined
         THEN Returns(Splice(categories, i), default)
    ELSE Awaits(Splice(categories, i), At(Splice(categories, i), 0).id)

\* the Save button of the edit form for the category object `id`, with the label typed
editSave(categories, default, id, label) ==
    IF IsBlank(label) THEN Returns(categories, default)
    ELSE Awaits([k \in 1..Len(categories) |->
                    IF categories[k] # Undefined /\ categories[k].id = id
                    THEN [categories[k] EXCEPT !.label = label] ELSE categories[k]],
                default)

\* the Add button of the add form, with the id and label typed
addSubmit(categories, default, typedId, label) ==
    IF SanitizeId(typedId) = "" \/ IsBlank(label) THEN Returns(categories, default)
    ELSE IF SomeId(categories, SanitizeId(typedId)) # "no" THEN Returns(categories, default)
    ELSE Awaits(Append(categories, [id |-> SanitizeId(typedId), label |-> label]), default)

\* one click: the handler's outcome on the settings, and the view it leaves
TabStep(out, newView) ==
    /\ tabOps < MaxTabOps
    /\ tabOps' = tabOps + 1
    /\ settings' = [settings EXCEPT !.categories = out.categories,
                                    !.defaultCategory = out.defaultCategory]
    /\ pendingSaves' = IF out.awaits THEN pendingSaves + 1 ELSE pendingSaves
    /\ view' = newView
    /\ UNCHANGED <<fieldSaves, logVars, linkerVars, pluginVars>>

\* the arrow-up button of row i
ClickMoveUp(i) ==
    /\ i \in ButtonRows
    /\ i > 0
    /\ TabStep(Awaits(Swap(settings.categories, i - 1, i), settings.defaultCategory), view)

\* the arrow-down button of row i
ClickMoveDown(i) ==
    /\ i \in ButtonRows
    /\ i < Len(view.cats) - 1
    /\ TabStep(Awaits(Swap(settings.categories, i, i + 1), settings.defaultCategory), view)

\* the star button of row i
ClickSetDefault(i) ==
    /\ i \in ButtonRows
    /\ view.cats[i + 1] # view.default
    /\ TabStep(Awaits(settings.categories, view.cats[i + 1]), view)

\* the trash button of row i: the row becomes a confirmation prompt
ClickDelete(i) ==
    /\ i \in ButtonRows
    /\ Len(view.cats) > 1
    /\ TabStep(Returns(settings.categories, settings.defaultCategory),
               [view EXCEPT !.prompts = @ \cup {i}])

\* the Delete button of the prompt of row i
ConfirmDelete(i) ==
    /\ i \in view.prompts
    /\ TabStep(confirmDelete(settings.categories, settings.defaultCategory, i), view)

\* the pencil button of row i: showEditCategoryForm(catContainer, i)
ClickEdit(i) ==
    /\ i \in ButtonRows
    /\ TabStep(Returns(settings.categories, settings.defaultCategory),
               IF At(settings.categories, i) = Undefined
               THEN [view EXCEPT !.gone = @ \cup {i}]
               ELSE [view EXCEPT !.forms = @ \cup {[row |-> i,
                                                    id |-> At(settings.categories, i).id]}])

\* the Save button of the edit form shown in row i
EditSave(i, label) ==
    /\ \E form \in view.forms :
          /\ form.row = i
          /\ TabStep(editSave(settings.categories, settings.defaultCategory, form.id, label),
                     view)

\* the Add Category button: showAddCategoryForm toggles the form
ClickAddCategory ==
    /\ view.rendered
    /\ TabStep(Returns(settings.categories, settings.defaultCategory),
               [view EXCEPT !.add = ~@])

\* the Add button of the add form
AddSubmit(typedId, label) ==
    /\ view.add
    /\ TabStep(addSubmit(settings.categories, settings.defaultCategory, typedId, label), view)

\* a Cancel button of a prompt or form: display()
ClickCancel ==
    /\ view.prompts # {} \/ view.forms # {} \/ view.add
    /\ TabStep(Returns(settings.categories, settings.defaultCategory), display(settings))

\* the default-category dropdown: onChange(value), which saves without display()
DropdownChange(value) ==
    /\ value \in Range(view.cats)
    /\ TabStep(Returns(settings.categories, value), view)

\* `await this.plugin.saveSettings()` of one waiting handler settles: updateSettings
\* drops the compiled patterns, registerCategoryCommands reads cat.id of every
\* element (and throws on an undefined one), then the handler calls display()
SaveSettles ==
    /\ pendingSaves > 0
    /\ pendingSaves' = pendingSaves - 1
    /\ cachedWorkLogPattern' = NoPattern
    /\ cachedRelatedNotePattern' = NoPattern
    /\ cachedNextHeadingPattern' = NoPattern
    /\ view' = IF HasUndefined(settings.categories) THEN view ELSE display(settings)
    /\ UNCHANGED <<settings, files, folders, linkDest, calls, formatted, fieldSaves, tabOps,
                   linkerVars, pluginVars>>

\* onChange of a formatting control: the handler writes the shared settings object
\* and then waits in `await this.plugin.saveSettings()`
FieldChange(newSettings) ==
    /\ tabOps < MaxTabOps
    /\ newSettings # settings
    /\ tabOps' = tabOps + 1
    /\ settings' = newSettings
    /\ fieldSaves' = fieldSaves + 1
    /\ UNCHANGED <<view, pendingSaves, logVars, linkerVars, pluginVars>>

\* the 'Work log date heading level' dropdown
ChangeWorkLogHeadingLevel(value) ==
    FieldChange([settings EXCEPT !.workLogDateHeadingLevel = value])

\* the 'Date as wiki link' toggle
ToggleWorkLogDateAsLink(value) ==
    FieldChange([settings EXCEPT !.workLogDateAsLink = value])

\* the 'Related note date heading level' dropdown
ChangeRelatedNoteHeadingLevel(value) ==
    FieldChange([settings EXCEPT !.relatedNoteDateHeadingLevel = value])

\* updateSettings(settings): the compiled patterns after the call (the settings object
\* is the one the LogManager holds already)
updateSettings(work, related, next) ==
    [cachedWorkLogPattern |-> NoPattern, cachedRelatedNotePattern |-> NoPattern,
     cachedNextHeadingPattern |-> NoPattern]

\* `await this.plugin.saveSettings()` of a waiting formatting handler settles:
\* saveSettings goes on with logManager.updateSettings(this.settings)
FieldSaveSettles ==
    /\ fieldSaves > 0
    /\ fieldSaves' = fieldSaves - 1
    /\ \E out \in {updateSettings(cachedWorkLogPattern, cachedRelatedNotePattern,
                                  cachedNextHeadingPattern)} :
          /\ cachedWorkLogPattern' = out.cachedWorkLogPattern
          /\ cachedRelatedNotePattern' = out.cachedRelatedNotePattern
          /\ cachedNextHeadingPattern' = out.cachedNextHeadingPattern
    /\ UNCHANGED <<settings, files, folders, linkDest, calls, formatted, view, pendingSaves,
                   tabOps, linkerVars, pluginVars>>

\* the settings tab not opened
TabIdle ==
    /\ view = EmptyView
    /\ pendingSaves = 0
    /\ fieldSaves = 0
    /\ tabOps = 0

\* an empty vault and a LogManager that has compiled nothing
VaultIdle ==
    /\ files = [p \in Paths |-> Absent]
    /\ folders = {}
    /\ linkDest = [n \in NoteNames |-> NoPath]
    /\ cachedWorkLogPattern = NoPattern
    /\ cachedRelatedNotePattern = NoPattern
    /\ cachedNextHeadingPattern = NoPattern
    /\ calls = <<>>
    /\ formatted = NoFormat

\* the LogManager as constructed, with default settings and an empty vault
LogIdle ==
    /\ settings = DEFAULT_SETTINGS
    /\ VaultIdle

(***************************************************************************)
(* Specification of the primary log: settings held fixed, a new vault      *)
(***************************************************************************)
LogSettings ==
    {[DEFAULT_SETTINGS EXCEPT !.workLogDateHeadingLevel = lv, !.workLogDateAsLink = al,
                              !.separateEntriesWithBlankLine = sep] :
        lv \in {H2, H3}, al \in BOOLEAN, sep \in BOOLEAN}

InitLog ==
    /\ settings \in LogSettings
    /\ files = [p \in Paths |-> Absent]
    /\ folders = {}
    /\ linkDest = [n \in NoteNames |-> NoPath]
    /\ cachedWorkLogPattern = NoPattern
    /\ cachedRelatedNotePattern = NoPattern
    /\ cachedNextHeadingPattern = NoPattern
    /\ calls = <<>>
    /\ formatted = NoFormat
    /\ LinkerIdle
    /\ PluginIdle
    /\ TabIdle

NextLog == \E e \in LogEntries(settings) : AddEntry(e)

SpecLog == InitLog /\ [][NextLog]_vars

(***************************************************************************)
(* Specification of a related note: settings held fixed; the note "Acme"   *)
(* is missing or is one of the documents below, "John Doe" is missing      *)
(***************************************************************************)
Frontmatter == <<"-", "-", "-", NL, "title: Acme", NL, "-", "-", "-">>

InitialNotes == {
    <<>>,
    <<"#", SP, "Acme", NL, NL, "Some content.", NL>>,
    Frontmatter \o <<NL, "#", SP, "Acme", NL>>,
    Frontmatter,
    <<"-", "-", "-", NL, "title: Acme", NL, "Some content.", NL>>,
    <<"-", "-", "-", NL, "-", "-", "-", NL>>,
    <<"#", SP, "Acme", NL, NL, "#", "#", SP, "Notes", NL, NL, "#", "#", SP, "Tasks", NL>>,
    <<"#", "#", SP, "Notes", NL, NL, "#", "#", "#", SP, "[", "[", Dates[3], "]", "]", NL,
      "Old entry", NL>> }

NoteSettings ==
    {[DEFAULT_SETTINGS EXCEPT !.relatedNoteDateHeadingLevel = lv,
                              !.createRelatedNoteIfMissing = cr,
                              !.separateEntriesWithBlankLine = sep] :
        lv \in {H3, H4}, cr \in BOOLEAN, sep \in BOOLEAN}

NoteEntries ==
    {Entry(Dates[i], x, "Acme") : i \in 1..3, x \in {DescPlain, DescQuoteLink}}
    \cup {Entry(Dates[2], DescPlain, "John Doe")}

InitNote ==
    /\ settings \in NoteSettings
    /\ \/ /\ files = [p \in Paths |-> Absent]
          /\ folders = {}
          /\ linkDest = [n \in NoteNames |-> NoPath]
       \/ \E doc \in InitialNotes :
          /\ files = [p \in Paths |-> IF p = "References/Acme.md" THEN doc ELSE Absent]
          /\ folders = {"References"}
          /\ linkDest = [n \in NoteNames |-> IF n = "Acme" THEN "References/Acme.md"
                                             ELSE NoPath]
    /\ cachedWorkLogPattern = NoPattern
    /\ cachedRelatedNotePattern = NoPattern
    /\ cachedNextHeadingPattern = NoPattern
    /\ calls = <<>>
    /\ formatted = NoFormat
    /\ LinkerIdle
    /\ PluginIdle
    /\ TabIdle

NextNote == \E e \in NoteEntries : AddToRelatedNote(e.relatedNote, e)

SpecNote == InitNote /\ [][NextNote]_vars

(***************************************************************************)
(* Reading a document back                                                 *)
(***************************************************************************)
\* offsets of the lines that start with a date heading of the given format
HeadingOffsets(content, pattern) ==
    {i \in LineStarts(content) : MatchAt(content, i, pattern)}

\* the dates of those headings, top to bottom
RECURSIVE HeadingDates(_, _, _)
HeadingDates(content, pattern, from) ==
    LET later == {i \in HeadingOffsets(content, pattern) : i >= from}
    IN IF later = {} THEN <<>>
       ELSE LET i == CHOOSE k \in later : \A j \in later : k <= j
            IN <<content[i + GroupOffset(pattern) + 1]>> \o HeadingDates(content, pattern, i + 1)

NonDecreasing(dates) ==
    \A i \in 1..(Len(dates) - 1) : ~DateLess(dates[i + 1], dates[i])

LogHeadingDates == HeadingDates(files[LogPath], CompileWorkLogPattern(settings), 0)

\* the content of the note "Acme", or Absent
AcmePath == IF linkDest["Acme"] # NoPath THEN linkDest["Acme"] ELSE "References/Acme.md"

\* the notes section of a document as markdown reads it: from the section
\* heading to the next line that starts a heading of its level or shallower
\* (for "## Notes": one or two "#" and a space), or to the end; <<>> if none
NotesSectionOf(content, sectionHeading) ==
    LET m == SectionMatch(content, sectionHeading)
        body == SubstringFrom(content, m.index + Len(sectionHeading))
        ends == {i \in 0..Len(body) :
                    MatchAt(body, i, <<NL, "#", SP>>) \/ MatchAt(body, i, <<NL, "#", "#", SP>>)}
    IN IF m.index = -1 THEN <<>>
       ELSE IF ends = {} THEN SubstringFrom(content, m.index)
       ELSE Substring(content, m.index,
                      m.index + Len(sectionHeading) + (CHOOSE i \in ends : \A j \in ends : i <= j))

NoteHeadingDates(content) ==
    HeadingDates(NotesSectionOf(content, settings.relatedNoteSectionHeading),
                 CompileRelatedNotePattern(settings), 0)

\* C3 (as claimed): in a related note, after any sequence of inserts, the date
\* subsection headings inside the notes section are in non-decreasing order.
C3_AscendingNote ==
    \A p \in NotePaths : files[p] # Absent => NonDecreasing(NoteHeadingDates(files[p]))

\* C1 (as claimed): in the primary log, after any sequence of inserts, the date
\* headings of the configured level read top to bottom are in non-decreasing order.
C1_AscendingLog ==
    files[LogPath] # Absent => NonDecreasing(LogHeadingDates)

\* offsets of the lines that are the heading of date d
DateHeadingLines(s, content, d) ==
    {i \in LineStarts(content) :
        /\ MatchAt(content, i, buildDateHeading(s, d, TRUE))
        /\ LET e == i + Len(buildDateHeading(s, d, TRUE))
           IN e = Len(content) \/ content[e + 1] = NL}

\* the section of date d: from its first heading line to the next line that starts
\* a heading of the configured level, or to the end of the document
DateSectionOf(s, content, d) ==
    LET hs == DateHeadingLines(s, content, d)
        h == CHOOSE i \in hs : \A j \in hs : i <= j
        body == SubstringFrom(content, h + 1)
        next == RegexSearch(body, <<NL>> \o s.workLogDateHeadingLevel \o <<SP>>, 0)
    IN IF hs = {} THEN <<>>
       ELSE IF next = -1 THEN SubstringFrom(content, h)
       ELSE Substring(content, h, h + 1 + next)

\* two consecutive addEntry calls for one date whose heading the document had before
SameDateAppend(i) ==
    /\ i + 1 <= Len(calls)
    /\ calls[i].op = "addEntry" /\ calls[i + 1].op = "addEntry"
    /\ calls[i].entry.date = calls[i + 1].entry.date
    /\ DateHeadingLines(settings, calls[i].before, calls[i].entry.date) # {}

\* C2 (as claimed): when the log has a heading for date d, inserting e1 and then e2,
\* both dated d, leaves exactly one heading for d, and d's section holds e1, the
\* configured separator and e2, in that order.
C2_SameDateAppend ==
    \A i \in 1..Len(calls) :
        SameDateAppend(i) =>
            LET d == calls[i].entry.date
                final == calls[i + 1].after
            IN /\ Cardinality(DateHeadingLines(settings, final, d)) = 1
               /\ IndexOf(DateSectionOf(settings, final, d),
                          formatLogEntry(settings, calls[i].entry) \o Separator(settings)
                          \o formatLogEntry(settings, calls[i + 1].entry)) # -1

\* the frontmatter block of a document: an opening "---" at offset 0 up to and
\* including the first later line that consists solely of "---" (and its line
\* break, if it has one); its length, or 0 when the document has none
FrontmatterBlockLen(content) ==
    LET closes == {i \in LineStarts(content) :
                      /\ i > 0
                      /\ MatchAt(content, i, <<"-", "-", "-">>)
                      /\ (i + 3 = Len(content) \/ content[i + 4] = NL)}
        c == CHOOSE i \in closes : \A j \in closes : i <= j
    IN IF ~StartsWith(content, <<"-", "-", "-">>) \/ closes = {} THEN 0
       ELSE IF c + 3 = Len(content) THEN c + 3 ELSE c + 4

\* an addToRelatedNote call on a document without the notes-section heading
NoSectionInsert(i) ==
    /\ calls[i].op = "addToRelatedNote"
    /\ calls[i].before # Absent
    /\ SectionMatch(calls[i].before, settings.relatedNoteSectionHeading).index = -1

\* C4 (as claimed): inserting into a document without a notes-section heading never
\* fails and gives the frontmatter block (if the document has a closed one), the new
\* notes section, and the rest of the original content, each unchanged.
C4_FrontmatterFrame ==
    \A i \in 1..Len(calls) :
        NoSectionInsert(i) =>
            LET before == calls[i].before
                fm == FrontmatterBlockLen(before)
            IN /\ calls[i].error = NoError
               /\ \E a, b \in {<<>>, <<NL>>} :
                     calls[i].after = Substring(before, 0, fm) \o a
                                      \o NewNoteContent(settings, calls[i].entry) \o b
                                      \o SubstringFrom(before, fm)

\* the call the step has just made
LastCall == calls[Len(calls)]

\* a step that calls addToRelatedNote for a name that resolves to no document
\* while createRelatedNoteIfMissing is off
MissingNoteStep ==
    /\ Len(calls') = Len(calls) + 1
    /\ LastCall'.op = "addToRelatedNote"
    /\ linkDest[LastCall'.name] = NoPath
    /\ ~settings.createRelatedNoteIfMissing

\* C9: addToRelatedNote for a name that resolves to no document, with
\* createRelatedNoteIfMissing off, fails with the not-found error naming the note
\* and creates or modifies no document and no folder.
C9_MissingNoteFails ==
    [][MissingNoteStep =>
          /\ LastCall'.error = NotFoundError(LastCall'.name)
          /\ files' = files
          /\ folders' = folders
          /\ linkDest' = linkDest]_vars

\* C9 witness: the last call was for "John Doe", who has no note, with creation off,
\* and it ended in the not-found error
C9_Witness ==
    /\ Len(calls) > 0
    /\ LastCall.op = "addToRelatedNote"
    /\ LastCall.name = "John Doe"
    /\ ~settings.createRelatedNoteIfMissing
    /\ linkDest["John Doe"] = NoPath
    /\ LastCall.error = NotFoundError("John Doe")

(***************************************************************************)
(* Specification of the AutoLinker: the vault starts with any of the files, *)
(* then layout-ready, vault events, the debounce timer and processText     *)
(* calls interleave                                                        *)
(***************************************************************************)
Pre == <<"M", "e", "t", " ">>
Post == <<" ", "t", "o", "d", "a", "y">>
Url == <<"h", "t", "t", "p", "s", ":", "/", "/", "a", ".", "b">>

\* the texts handed to processText
Texts == {
    <<>>,
    Pre \o NAnnLeeRoy \o Post,
    Pre \o LowerSeq(NAnnLeeRoy) \o Post,
    Pre \o NAnnLee \o Post,
    <<"s", "e", "e", " ", "[", "[">> \o NAnnLee \o <<"]", "]", " ", "a", "t", " ">> \o Url
        \o <<"/">> \o NLee \o <<" ">> \o NLee,
    <<"[", "[">> \o Url \o <<"]", "]">> }

InitLinker ==
    /\ LogIdle
    /\ PluginIdle
    /\ TabIdle
    /\ mdFiles \in SUBSET Range(LinkerFiles)
    /\ noteNames = <<>>
    /\ noteNamesLower = {}
    /\ cachedPatterns = <<>>
    /\ indexBuilt = FALSE
    /\ rebuildTimer = NoTimer
    /\ timers = {}
    /\ loaded = TRUE
    /\ processed = NoCall

NextLinker ==
    \/ LayoutReady(LinkerFiles)
    \/ \E name \in Range(LinkerFiles) : VaultCreate(name)
    \/ \E name \in Range(LinkerFiles) : VaultDelete(name)
    \/ \E old, new \in Range(LinkerFiles) : VaultRename(old, new)
    \/ \E id \in TimerIds : RebuildTimerFires(id)
    \/ \E text \in Texts : ProcessText(text)

SpecLinker == InitLinker /\ [][NextLinker]_vars

\* the text between "Met " and " today" of a text of that shape
IsFramed(text) ==
    /\ Len(text) > Len(Pre) + Len(Post)
    /\ StartsWith(text, Pre)
    /\ SubstringFrom(text, Len(text) - Len(Post)) = Post

Framed(text) == Substring(text, Len(Pre), Len(text) - Len(Post))

\* the name S occurs in the name L as a run of whole words
WholeWordPart(S, L) ==
    /\ Len(S) < Len(L)
    /\ \E i \in 0..(Len(L) - Len(S)) : NameMatchAt(L, i, escapeRegex(S))

\* the k-th compiled name is the one the framed text spells (ignoring case), and a
\* shorter compiled name is a whole-word part of it
LongestOccurs(k) ==
    /\ processed # NoCall
    /\ rebuildTimer = NoTimer
    /\ IsFramed(processed.text)
    /\ LowerSeq(Framed(processed.text)) = LowerSeq(cachedPatterns[k].name)
    /\ \E j \in 1..Len(cachedPatterns) :
          WholeWordPart(cachedPatterns[j].name, cachedPatterns[k].name)

\* C5 (as claimed): with a name L and shorter names that are whole-word parts of L
\* compiled, an occurrence of L in the text is linked once as L, and no link to a
\* shorter name is produced for it.
C5_LongestMatchWins ==
    \A k \in 1..Len(cachedPatterns) :
        LongestOccurs(k) =>
            processed.result =
                Pre \o LinkFor(cachedPatterns[k].originalName, Framed(processed.text)) \o Post

\* the URLs and wiki-link spans of a text, left to right from offset i on
RECURSIVE ProtectedSpans(_, _)
ProtectedSpans(text, i) ==
    IF i >= Len(text) THEN <<>>
    ELSE LET w == WikiMatchLen(text, i)
             u == UrlMatchLen(text, i)
         IN IF w > 0 THEN <<Substring(text, i, i + w)>> \o ProtectedSpans(text, i + w)
            ELSE IF u > 0 THEN <<Substring(text, i, i + u)>> \o ProtectedSpans(text, i + u)
            ELSE ProtectedSpans(text, i + 1)

\* the spans occur in out, in that order, from offset `from` on
RECURSIVE OccurInOrder(_, _, _)
OccurInOrder(out, spans, from) ==
    IF Len(spans) = 0 THEN TRUE
    ELSE LET at == IndexOfFrom(out, spans[1], from)
         IN at # -1 /\ OccurInOrder(out, Tail(spans), at + Len(spans[1]))

\* C6 (as claimed): every URL and every wiki-link span of the input appears
\* unchanged in the output of processText, in the same relative order.
C6_LinksProtected ==
    processed # NoCall =>
        OccurInOrder(processed.result, ProtectedSpans(processed.text, 0), 0)

\* C7 (as claimed): in every reachable index state processText(t) returns t
\* whenever t is empty or count() = 0.
C7_NoOpWhenCountZero ==
    (processed # NoCall /\ (processed.text = <<>> \/ getNoteCount(noteNames) = 0))
        => processed.result = processed.text

\* C7 (amended): processText(t) returns t whenever t is empty, or count() = 0 and no
\* debounced rebuild is pending.
C7_NoOpWhenCompiledEmpty ==
    (processed # NoCall
     /\ (processed.text = <<>> \/ (getNoteCount(noteNames) = 0 /\ rebuildTimer = NoTimer)))
        => processed.result = processed.text

\* C7 witness: after notes were indexed and removed again and the rebuild has run,
\* a text that spells a removed name comes back unchanged.
C7_Witness ==
    /\ indexBuilt
    /\ mdFiles = {}
    /\ getNoteCount(noteNames) = 0
    /\ rebuildTimer = NoTimer
    /\ processed # NoCall
    /\ processed.text = Pre \o NAnnLee \o Post
    /\ processed.result = processed.text

(***************************************************************************)
(* Specification of the plugin's addEntry: the calls of one submission     *)
(* after the other; the vault may reject any call                          *)
(***************************************************************************)
PluginEntries == {Entry(Dates[i], DescPlain, n) : i \in 1..2, n \in NoteNames \cup {""}}

InitPlugin ==
    /\ settings \in {[DEFAULT_SETTINGS EXCEPT !.createRelatedNoteIfMissing = cr] :
                        cr \in BOOLEAN}
    /\ \/ /\ files = [p \in Paths |-> Absent]
          /\ folders \in {{}, {LogPath}}
          /\ linkDest = [n \in NoteNames |-> NoPath]
       \/ /\ files = [p \in Paths |-> IF p = "References/Acme.md"
                                     THEN <<"#", SP, "Acme", NL>> ELSE Absent]
          /\ folders = {"References"}
          /\ linkDest = [n \in NoteNames |-> IF n = "Acme" THEN "References/Acme.md"
                                             ELSE NoPath]
    /\ cachedWorkLogPattern = NoPattern
    /\ cachedRelatedNotePattern = NoPattern
    /\ cachedNextHeadingPattern = NoPattern
    /\ calls = <<>>
    /\ formatted = NoFormat
    /\ LinkerIdle
    /\ PluginIdle
    /\ TabIdle

NextPlugin ==
    \/ \E e \in PluginEntries : PluginAddEntry(e)
    \/ PrimaryWriteSettles
    \/ PrimaryWriteRejects
    \/ RelatedWriteSettles
    \/ RelatedWriteRejects

SpecPlugin == InitPlugin /\ [][NextPlugin]_vars

\* C8: a related-note write is made only right after the primary-log write of the
\* same entry has completed without error, and none is started after a failed one;
\* when the related-note write fails, the log keeps the entry the primary write gave
\* it, nothing is rethrown, and the notice is the partial-success notice, which is
\* neither the success notice nor the failure notice.
C8_TwoSequentialWrites ==
    /\ \A k \in 1..Len(calls) :
          calls[k].op = "addToRelatedNote" =>
              /\ k > 1
              /\ calls[k - 1].op = "addEntry"
              /\ calls[k - 1].entry = calls[k].entry
              /\ calls[k - 1].error = NoError
    /\ pluginPc = "related" =>
          (LastCall.op = "addEntry" /\ LastCall.entry = pluginEntry /\ LastCall.error = NoError)
    /\ (Len(calls) > 0 /\ LastCall.op = "addEntry" /\ LastCall.error # NoError) =>
          (pluginPc # "related" /\ lastNotice = FailedNotice /\ rejected)
    /\ (Len(calls) > 0 /\ LastCall.op = "addToRelatedNote" /\ LastCall.error # NoError) =>
          /\ files[LogPath] = calls[Len(calls) - 1].after
          /\ IndexOf(files[LogPath], formatLogEntry(settings, LastCall.entry)) # -1
          /\ lastNotice = PartialNotice(LastCall.entry, LastCall.error)
          /\ lastNotice \notin {FailedNotice, AddedBothNotice(settings, LastCall.entry),
                                AddedLogNotice(settings, LastCall.entry)}
          /\ ~rejected
    /\ (Len(calls) > 0 /\ LastCall.op = "addToRelatedNote" /\ LastCall.error = NoError) =>
          lastNotice = AddedBothNotice(settings, LastCall.entry)

\* C8 witness: the primary write put the entry into the log, the related-note write
\* for "John Doe" failed with not-found, and the partial-success notice is shown.
C8_Witness ==
    /\ pluginPc = "idle"
    /\ Len(calls) > 1
    /\ LastCall.op = "addToRelatedNote"
    /\ LastCall.error = NotFoundError("John Doe")
    /\ calls[Len(calls) - 1].error = NoError
    /\ IndexOf(files[LogPath], formatLogEntry(settings, pluginEntry)) # -1
    /\ lastNotice = PartialNotice(pluginEntry, NotFoundError("John Doe"))

(***************************************************************************)
(* Specification of the category settings: loadSettings on any saved data, *)
(* the tab displayed, then clicks and settling saves interleave            *)
(***************************************************************************)
TypedIds == {"Meeting!", "demo", "!"}
CategoryIds == {"demo", "customer", "meeting"}
TypedLabels == {"Renamed", " "}

InitSettings ==
    /\ \E saved \in SavedData : settings = loadSettings(saved)
    /\ view = display(settings)
    /\ pendingSaves = 0
    /\ fieldSaves = 0
    /\ tabOps = 0
    /\ VaultIdle
    /\ LinkerIdle
    /\ PluginIdle

NextSettings ==
    \/ \E i \in 0..2 : ClickMoveUp(i)
    \/ \E i \in 0..2 : ClickMoveDown(i)
    \/ \E i \in 0..2 : ClickSetDefault(i)
    \/ \E i \in 0..2 : ClickDelete(i)
    \/ \E i \in 0..2 : ConfirmDelete(i)
    \/ \E i \in 0..2 : ClickEdit(i)
    \/ \E i \in 0..2, label \in TypedLabels : EditSave(i, label)
    \/ ClickAddCategory
    \/ \E typedId \in TypedIds, label \in TypedLabels : AddSubmit(typedId, label)
    \/ ClickCancel
    \/ \E value \in CategoryIds : DropdownChange(value)
    \/ SaveSettles

SpecSettings == InitSettings /\ [][NextSettings]_vars

\* C10 (as claimed): in every state reachable from loadSettings by the category
\* operations of the settings tab, interleaved where a save is awaited, the category
\* list is non-empty and defaultCategory is the id of a category in the list.
C10_CategoriesValid ==
    /\ Len(settings.categories) > 0
    /\ \E k \in 1..Len(settings.categories) :
          /\ settings.categories[k] # Undefined
          /\ settings.categories[k].id = settings.defaultCategory

(***************************************************************************)
(* Specification of the AutoLinker's index alone: vault events, the        *)
(* debounce timer, layout-ready and the unload of the component; two of    *)
(* the file names differ only in letter case                               *)
(***************************************************************************)
NLeeLower == LowerSeq(NLee)

\* the markdown files of this vault, in the order getMarkdownFiles lists them
IndexFiles3 == <<NLee, NLeeLower, NAnnLee>>

InitIndex ==
    /\ LogIdle
    /\ PluginIdle
    /\ TabIdle
    /\ mdFiles \in SUBSET Range(IndexFiles3)
    /\ noteNames = <<>>
    /\ noteNamesLower = {}
    /\ cachedPatterns = <<>>
    /\ indexBuilt = FALSE
    /\ rebuildTimer = NoTimer
    /\ timers = {}
    /\ loaded = TRUE
    /\ processed = NoCall

NextIndex ==
    \/ LayoutReady(IndexFiles3)
    \/ \E name \in Range(IndexFiles3) : VaultCreate(name)
    \/ \E name \in Range(IndexFiles3) : VaultDelete(name)
    \/ \E old, new \in Range(IndexFiles3) : VaultRename(old, new)
    \/ \E id \in TimerIds : RebuildTimerFires(id)
    \/ Unload

SpecIndex == InitIndex /\ [][NextIndex]_vars

\* a step in which a timer's callback ran: the queue lost a timer
TimerFired == Cardinality(timers') < Cardinality(timers)

\* C11 (as claimed): when the component is unloaded the pending rebuild timer is
\* cleared, and once it is unloaded no rebuild timer fires any more.
C11_TimerClearedOnUnload ==
    [][/\ (loaded /\ ~loaded') => timers' = {}
       /\ ~loaded => ~TimerFired]_vars

\* the only timer in the queue is the one rebuildTimer holds
OneTimerPending == timers = (IF rebuildTimer = NoTimer THEN {} ELSE {rebuildTimer})

\* the compiled list lags the index only while a rebuild is pending
StaleOnlyWhilePending ==
    timers = {} => cachedPatterns = rebuildSortedList(noteNames, noteNamesLower)

\* a step of addNote / removeNote that changed the index
EffectiveMutation == noteNames' # noteNames /\ indexBuilt' = indexBuilt

\* C12: at most one rebuild timer is pending; an effective add or remove replaces a
\* pending timer by a new one; when the timer fires no timer is left and the compiled
\* list is the one of the index as the last call left it.
C12_TrailingDebounce ==
    /\ [](OneTimerPending /\ StaleOnlyWhilePending)
    /\ [][/\ EffectiveMutation =>
               /\ rebuildTimer' # NoTimer
               /\ rebuildTimer' # rebuildTimer
               /\ timers' = {rebuildTimer'}
          /\ TimerFired =>
               /\ timers' = {}
               /\ rebuildTimer' = NoTimer
               /\ cachedPatterns' = rebuildSortedList(noteNames, noteNamesLower)]_vars

\* C12 witness: a second add arrived while the first timer was pending; the first
\* handle was cleared and only the second is pending.
C12_Witness ==
    /\ Len(noteNames) >= 2
    /\ rebuildTimer = 2
    /\ timers = {2}
    /\ cachedPatterns = <<>>

\* C13 (as claimed): noteExists(x) is true exactly when a known name equals x
\* ignoring case.
C13_NoteExistsIffKnown ==
    \A x \in Range(IndexFiles3) :
        noteExists(noteNamesLower, x) <=> (\E n \in Range(noteNames) : LowerSeq(n) = LowerSeq(x))

(***************************************************************************)
(* Specification of the LogManager's compiled patterns: inserts into the   *)
(* log and into the note "Acme" interleave with changes of the formatting  *)
(* settings made in the settings tab                                       *)
(***************************************************************************)
CacheEntries == {Entry(Dates[2], DescPlain, "Acme")}

InitCache ==
    /\ settings = DEFAULT_SETTINGS
    /\ files = [p \in Paths |->
                   IF p = "References/Acme.md"
                   THEN <<"#", "#", SP, "Notes", NL, NL, "#", "#", "#", SP, "[", "[", Dates[3],
                          "]", "]", NL, "Old entry", NL>>
                   ELSE Absent]
    /\ folders = {"References"}
    /\ linkDest = [n \in NoteNames |-> IF n = "Acme" THEN "References/Acme.md" ELSE NoPath]
    /\ cachedWorkLogPattern = NoPattern
    /\ cachedRelatedNotePattern = NoPattern
    /\ cachedNextHeadingPattern = NoPattern
    /\ calls = <<>>
    /\ formatted = NoFormat
    /\ LinkerIdle
    /\ PluginIdle
    /\ TabIdle

NextCache ==
    \/ \E e \in CacheEntries : AddEntry(e)
    \/ \E e \in CacheEntries : AddToRelatedNote(e.relatedNote, e)
    \/ \E value \in {H2, H3} : ChangeWorkLogHeadingLevel(value)
    \/ \E value \in BOOLEAN : ToggleWorkLogDateAsLink(value)
    \/ \E value \in {H3, H4} : ChangeRelatedNoteHeadingLevel(value)
    \/ FieldSaveSettles

SpecCache == InitCache /\ [][NextCache]_vars

\* a step in which an insert ran, and the call it was
InsertStep == Len(calls') = Len(calls) + 1

InsertCall == calls'[Len(calls')]

Befores == {<<>>, <<" ">>, <<"(">>, <<"[">>, <<"]">>, <<"s">>, <<"_">>, <<"-">>}
Afters == {<<>>, <<" ">>, <<")">>, <<"]">>, <<"[">>, <<"s">>, <<"1">>, <<".">>}
Spellings == {NLee, LowerSeq(NLee)}

\* one spelling with a neighbour on each side
AroundTexts == {b \o typed \o a : b \in Befores, typed \in Spellings, a \in Afters}

\* two or three spellings, separated by ", " or " "
RepeatTexts ==
    {t1 \o <<",", " ">> \o t2 : t1, t2 \in Spellings}
    \cup {t1 \o <<" ">> \o t2 \o <<" ">> \o t3 : t1, t2, t3 \in Spellings}

TextInputs == AroundTexts \cup RepeatTexts \cup Texts

InitText ==
    /\ LogIdle
    /\ PluginIdle
    /\ TabIdle
    /\ mdFiles \in SUBSET Range(LinkerFiles)
    /\ noteNames = <<>>
    /\ noteNamesLower = {}
    /\ cachedPatterns = <<>>
    /\ indexBuilt = FALSE
    /\ rebuildTimer = NoTimer
    /\ timers = {}
    /\ loaded = TRUE
    /\ processed = NoCall

NextText ==
    \/ LayoutReady(LinkerFiles)
    \/ \E text \in TextInputs : ProcessText(text)

SpecText == InitText /\ [][NextText]_vars

\* the first compiled pattern (they are sorted longest first) that matches the input
\* text at offset i as a whole word, or 0
FirstMatching(text, i, patterns) ==
    IF \E k \in 1..Len(patterns) : NameMatchAt(text, i, patterns[k].matchPattern)
    THEN CHOOSE k \in 1..Len(patterns) :
             /\ NameMatchAt(text, i, patterns[k].matchPattern)
             /\ \A j \in 1..(k - 1) : ~NameMatchAt(text, i, patterns[j].matchPattern)
    ELSE 0

\* the text with every whole-word occurrence of an indexed name replaced, left to
\* right from offset i, by [[Name]] or [[Name|as typed]]
RECURSIVE EveryOccurrenceLinked(_, _, _)
EveryOccurrenceLinked(text, i, patterns) ==
    IF i >= Len(text) THEN <<>>
    ELSE LET k == FirstMatching(text, i, patterns)
         IN IF k = 0 THEN <<text[i + 1]>> \o EveryOccurrenceLinked(text, i + 1, patterns)
            ELSE LET n == Len(patterns[k].matchPattern)
                     typed == Substring(text, i, i + n)
                 IN (IF typed = patterns[k].originalName
                     THEN <<"[", "[">> \o patterns[k].originalName \o <<"]", "]">>
                     ELSE <<"[", "[">> \o patterns[k].originalName \o <<"|">> \o typed
                          \o <<"]", "]">>)
                    \o EveryOccurrenceLinked(text, i + n, patterns)

\* a processText call on a text without URLs and wiki links
PlainCall ==
    /\ processed # NoCall
    /\ processed.text # <<>>
    /\ ProtectedSpans(processed.text, 0) = <<>>

\* C15 (as claimed): every whole-word, case-insensitive occurrence of an indexed name
\* is replaced by [[Name]] when typed as stored and by [[Name|as typed]] otherwise.
C15_EveryOccurrenceLinked ==
    PlainCall =>
        processed.result = EveryOccurrenceLinked(processed.text, 0, cachedPatterns)

\* the only compiled name is "Lee" and the text is one spelling of it between the
\* neighbours b and a
OneSpelling(b, typed, a) ==
    /\ processed # NoCall
    /\ Len(cachedPatterns) = 1
    /\ cachedPatterns[1].name = NLee
    /\ processed.text = b \o typed \o a

FormatSettings ==
    {[DEFAULT_SETTINGS EXCEPT !.showCategoryInLog = cat, !.showCategoryInRelatedNote = rel,
                              !.showTimestamps = ts] :
        cat \in BOOLEAN, rel \in BOOLEAN, ts \in BOOLEAN}

\* descriptions of one line and of several: list markers, padded and blank lines
FormatDescriptions == {
    DescPlain,
    <<SP, "lead", SP>>,
    <<"Call", NL, "-", SP, "item">>,
    <<"Call", NL, SP, SP, "notes", SP, NL, NL, "*", SP, "x">>,
    <<"Call", NL, SP, NL, "end">>,
    <<SP, "first", SP, NL, "second">>,
    <<NL, "text">>,
    <<"a", NL>> }

\* minutes after midnight: 14:30 and 09:05
FormatTimes == {870, 545}

FormatEntries ==
    {[Entry(Dates[1], d, n) EXCEPT !.timestamp = t] :
        d \in FormatDescriptions, n \in {"", "Acme"}, t \in FormatTimes}

FormatLogEntry(entry) ==
    /\ formatted' = [op |-> "formatLogEntry", input |-> entry,
                     result |-> formatLogEntry(settings, entry)]
    /\ UNCHANGED <<settings, files, folders, linkDest, cachedWorkLogPattern,
                   cachedRelatedNotePattern, cachedNextHeadingPattern, calls>>
    /\ UNCHANGED <<linkerVars, pluginVars, tabVars>>

FormatRelatedNoteEntry(entry) ==
    /\ formatted' = [op |-> "formatRelatedNoteEntry", input |-> entry,
                     result |-> formatRelatedNoteEntry(settings, entry)]
    /\ UNCHANGED <<settings, files, folders, linkDest, cachedWorkLogPattern,
                   cachedRelatedNotePattern, cachedNextHeadingPattern, calls>>
    /\ UNCHANGED <<linkerVars, pluginVars, tabVars>>

FormatMultiLineDescription(description) ==
    /\ formatted' = [op |-> "formatMultiLineDescription", input |-> description,
                     result |-> formatMultiLineDescription(description)]
    /\ UNCHANGED <<settings, files, folders, linkDest, cachedWorkLogPattern,
                   cachedRelatedNotePattern, cachedNextHeadingPattern, calls>>
    /\ UNCHANGED <<linkerVars, pluginVars, tabVars>>

InitFormat ==
    /\ settings \in FormatSettings
    /\ VaultIdle
    /\ LinkerIdle
    /\ PluginIdle
    /\ TabIdle

NextFormat ==
    \/ \E e \in FormatEntries : FormatLogEntry(e)
    \/ \E e \in FormatEntries : FormatRelatedNoteEntry(e)
    \/ \E d \in FormatDescriptions : FormatMultiLineDescription(d)

SpecFormat == InitFormat /\ [][NextFormat]_vars

\* the lines after the first that are not blank, in order, each trimmed and
\* prefixed with two spaces
RECURSIVE Continuation(_)
Continuation(lines) ==
    IF lines = <<>> THEN <<>>
    ELSE IF \A i \in 1..Len(lines[1]) : lines[1][i] \in Whitespace
         THEN Continuation(Tail(lines))
         ELSE <<NL, SP, SP>> \o Trim(lines[1]) \o Continuation(Tail(lines))

\* the reflowed description: the first line as it is, then the continuation
Reflowed(description) ==
    LET lines == SplitLines(description)
    IN lines[1] \o Continuation(Tail(lines))

Bold(label) == <<"*", "*", label, "*", "*">>
WikiLink(name) == <<"[", "[", name, "]", "]">>

\* C17: the primary-log line is "- ", the bold category label if showCategoryInLog, a
\* parenthesized group of the related-note link and the HH:mm time (those present,
\* comma separated), ": " and the reflowed description; with nothing enabled and no
\* related note it is "- " and the description.
C17_LogEntryLine ==
    formatted.op = "formatLogEntry" =>
        LET e == formatted.input
            cat == settings.showCategoryInLog
            note == e.relatedNote # ""
            ts == settings.showTimestamps
            label == Bold("Customer")
            link == WikiLink(e.relatedNote)
            time == FormatHHmm(e.timestamp)
            d == Reflowed(e.description)
            head ==
                CASE ~cat /\ ~note /\ ~ts -> <<>>
                  [] cat /\ ~note /\ ~ts -> label \o <<":", SP>>
                  [] ~cat /\ note /\ ~ts -> <<"(">> \o link \o <<")", ":", SP>>
                  [] ~cat /\ ~note /\ ts -> <<"(">> \o time \o <<")", ":", SP>>
                  [] cat /\ note /\ ~ts -> label \o <<SP, "(">> \o link \o <<")", ":", SP>>
                  [] cat /\ ~note /\ ts -> label \o <<SP, "(">> \o time \o <<")", ":", SP>>
                  [] ~cat /\ note /\ ts ->
                         <<"(">> \o link \o <<",", SP>> \o time \o <<")", ":", SP>>
                  [] cat /\ note /\ ts ->
                         label \o <<SP, "(">> \o link \o <<",", SP>> \o time \o <<")", ":", SP>>
        IN formatted.result = <<"-", SP>> \o head \o d

\* C17 witness: category, related note and timestamp on, a description of several
\* lines: "- **Customer** ([[Acme]], 09:05): Call" and the indented item.
C17_Witness ==
    /\ formatted.op = "formatLogEntry"
    /\ settings.showCategoryInLog /\ settings.showTimestamps
    /\ formatted.input.relatedNote = "Acme"
    /\ formatted.input.description = <<"Call", NL, "-", SP, "item">>
    /\ formatted.result =
           <<"-", SP, "*", "*", "Customer", "*", "*", SP, "(", "[", "[", "Acme", "]", "]",
             ",", SP, "0", "9", ":", "0", "5", ")", ":", SP, "Call", NL, SP, SP, "-", SP,
             "item">>

\* C18: the related-note line has no list marker and no link; it is the bold category
\* if showCategoryInRelatedNote, the HH:mm time in parentheses if showTimestamps,
\* ": " and the description whenever one of the two is present, and the description
\* alone when neither is.
C18_RelatedNoteLine ==
    formatted.op = "formatRelatedNoteEntry" =>
        LET e == formatted.input
            cat == settings.showCategoryInRelatedNote
            ts == settings.showTimestamps
            label == Bold("Customer")
            time == FormatHHmm(e.timestamp)
            d == Reflowed(e.description)
            head ==
                CASE ~cat /\ ~ts -> <<>>
                  [] cat /\ ~ts -> label \o <<":", SP>>
                  [] ~cat /\ ts -> <<"(">> \o time \o <<")", ":", SP>>
                  [] cat /\ ts -> label \o <<SP, "(">> \o time \o <<")", ":", SP>>
        IN formatted.result = head \o d

\* C19: a description of one line comes back unchanged; of several lines, the first
\* is unchanged, every later non-blank line is trimmed and prefixed with two spaces,
\* later blank lines are dropped and the order is kept.
C19_Reflow ==
    formatted.op = "formatMultiLineDescription" =>
        /\ formatted.result = Reflowed(formatted.input)
        /\ Len(SplitLines(formatted.input)) = 1 => formatted.result = formatted.input

\* C19 witness: "Call", a padded line, a blank line and a list item have become
\* three lines.
C19_Witness ==
    /\ formatted.op = "formatMultiLineDescription"
    /\ formatted.input = <<"Call", NL, SP, SP, "notes", SP, NL, NL, "*", SP, "x">>
    /\ formatted.result = <<"Call", NL, SP, SP, "notes", NL, SP, SP, "*", SP, "x">>

(***************************************************************************)
(* Specification of related-note creation: the folder for new notes is     *)
(* "References" or blank, the vault is empty or holds the note of Acme     *)
(***************************************************************************)
CreateSettings ==
    {[DEFAULT_SETTINGS EXCEPT !.newRelatedNoteFolder = f,
                              !.relatedNoteDateHeadingLevel = lv,
                              !.createRelatedNoteIfMissing = cr] :
        f \in {"References", "", " "}, lv \in {H3, H4}, cr \in BOOLEAN}

InitCreate ==
    /\ settings \in CreateSettings
    /\ \/ /\ files = [p \in Paths |-> Absent]
          /\ folders = {}
          /\ linkDest = [n \in NoteNames |-> NoPath]
       \/ \E doc \in InitialNotes :
          /\ files = [p \in Paths |-> IF p = "References/Acme.md" THEN doc ELSE Absent]
          /\ folders = {"References"}
          /\ linkDest = [n \in NoteNames |-> IF n = "Acme" THEN "References/Acme.md"
                                             ELSE NoPath]
    /\ cachedWorkLogPattern = NoPattern
    /\ cachedRelatedNotePattern = NoPattern
    /\ cachedNextHeadingPattern = NoPattern
    /\ calls = <<>>
    /\ formatted = NoFormat
    /\ LinkerIdle
    /\ PluginIdle
    /\ TabIdle

NextCreate == \E e \in NoteEntries : AddToRelatedNote(e.relatedNote, e)

SpecCreate == InitCreate /\ [][NextCreate]_vars

\* a step that calls addToRelatedNote for a name that resolves to no document
\* while createRelatedNoteIfMissing is on
CreateNoteStep ==
    /\ Len(calls') = Len(calls) + 1
    /\ LastCall'.op = "addToRelatedNote"
    /\ linkDest[LastCall'.name] = NoPath
    /\ settings.createRelatedNoteIfMissing

\* <newRelatedNoteFolder>/<name>.md, or <name>.md when the folder is blank
NewNotePath(folder, name) ==
    IF folder \in {"", " "} THEN NotePathOf("", name) ELSE NotePathOf(folder, name)

\* C20: addToRelatedNote for an unresolved name with createRelatedNoteIfMissing on
\* creates exactly one document, at <newRelatedNoteFolder>/<name>.md (<name>.md when
\* the folder is blank), whose lines are the notes heading, an empty line, one date
\* subsection heading and the entry; no existing document is modified.
C20_CreatesOneNote ==
    [][CreateNoteStep =>
          LET name == LastCall'.name
              e == LastCall'.entry
              path == NewNotePath(settings.newRelatedNoteFolder, name)
          IN /\ files[path] = Absent
             /\ files'[path] # Absent
             /\ SplitLines(files'[path]) =
                    << settings.relatedNoteSectionHeading,
                       <<>>,
                       settings.relatedNoteDateHeadingLevel
                           \o <<SP, "[", "[", e.date, "]", "]">>,
                       formatRelatedNoteEntry(settings, e),
                       <<>> >>
             /\ \A p \in Paths \ {path} : files'[p] = files[p]
             /\ LastCall'.error = NoError]_vars

\* C20 witness: with a blank folder and the note of Acme in place, the last call
\* created "John Doe.md" and left the note of Acme as it was.
C20_Witness ==
    /\ Len(calls) = 1
    /\ LastCall.op = "addToRelatedNote"
    /\ LastCall.name = "John Doe"
    /\ settings.createRelatedNoteIfMissing
    /\ settings.newRelatedNoteFolder = " "
    /\ LastCall.error = NoError
    /\ files["John Doe.md"] = LastCall.after
    /\ files["John Doe.md"] # Absent
    /\ files["References/Acme.md"] \in InitialNotes
    /\ files["References/John Doe.md"] = Absent

(***************************************************************************)
(* Specification of the modals: entry and task modals are opened one at a  *)
(* time, submitted, cancelled and retried while the vault calls of their   *)
(* onSubmit callbacks settle or reject in any order                        *)
(***************************************************************************)
\* what the user types into modal m: its own text, or only a space
ModalDescriptions(m) == IF m = 1 THEN {<<"first", SP>>, <<SP>>} ELSE {<<"second">>}

\* the date picked in modal m: the second modal logs for an earlier day
ModalDate(m) == IF m = 1 THEN Dates[2] ELSE Dates[1]

\* the related note typed into modal m
ModalNotes(m) == IF m = 1 THEN {"", "Acme"} ELSE {""}

InitModal ==
    /\ settings \in {[DEFAULT_SETTINGS EXCEPT !.createRelatedNoteIfMissing = cr] :
                        cr \in BOOLEAN}
    /\ VaultIdle
    /\ LinkerIdle
    /\ PluginIdle
    /\ TabIdle

NextModal ==
    \/ \E m \in ModalIds : \E d \in ModalDescriptions(m), n \in ModalNotes(m) :
          OpenEntryModal(m, ModalDate(m), d, n)
    \/ \E d \in ModalDescriptions(2) : OpenTaskModal(2, d, 3)
    \/ \E m \in ModalIds : Cancel(m)
    \/ \E m \in ModalIds : Submit(m)
    \/ \E m \in ModalIds : PrimaryRead(m)
    \/ \E m \in ModalIds : PrimaryModify(m)
    \/ \E m \in ModalIds : PrimaryRejects(m)
    \/ \E m \in ModalIds : RelatedSettles(m)
    \/ \E m \in ModalIds : RelatedRejects(m)
    \/ \E m \in ModalIds : TaskWriteSettles(m)
    \/ \E m \in ModalIds : TaskWriteRejects(m)

SpecModal == InitModal /\ [][NextModal]_vars

\* C21: a modal invokes its write callback again only when every earlier invocation
\* has failed: never while one is in flight, never after one has succeeded.
C21_NoDoubleSubmission ==
    [][\A m \in ModalIds :
          Len(modals'[m].attempts) > Len(modals[m].attempts) =>
              \A i \in 1..Len(modals[m].attempts) : modals[m].attempts[i] = "failed"]_vars

\* C21 witness: a modal whose first attempt failed and whose second succeeded has
\* returned at once from a later trigger.
C21_Witness ==
    \E m \in ModalIds :
        /\ modals[m].attempts = <<"failed", "ok">>
        /\ modals[m].last = "blocked"

\* the step closes entry modal m from its submit()
ClosedBySubmit(m) ==
    /\ modals[m].kind = "entry"
    /\ modals[m].state = "open"
    /\ modals'[m].state = "submitted"

\* the step ends a vault call of entry modal m's addEntry with an error
WriteFailed(m, pcs) ==
    /\ modals[m].kind = "entry"
    /\ modals[m].pc \in pcs
    /\ modals'[m].pc = "idle"
    /\ Len(calls') = Len(calls) + 1
    /\ calls'[Len(calls')].error # NoError

\* the modal is as it was, with the form input intact and submission enabled again
StaysOpenForRetry(m) ==
    /\ modals'[m].state = modals[m].state
    /\ modals'[m].description = modals[m].description
    /\ modals'[m].relatedNote = modals[m].relatedNote
    /\ modals'[m].selectedDate = modals[m].selectedDate
    /\ ~modals'[m].isSubmitting
    /\ ~modals'[m].disabled

\* the primary-log write of modal m's entry has completed successfully
PrimaryWritten(m) ==
    \E i \in 1..Len(calls) :
        /\ calls[i].op = "addEntry"
        /\ calls[i].entry = modals[m].entry
        /\ calls[i].error = NoError

\* the last call was the related-note write of modal m's entry
RelatedSettled(m) ==
    /\ calls # <<>>
    /\ LastCall.op = "addToRelatedNote"
    /\ LastCall.entry = modals[m].entry

C28_NoLostUpdate ==
    /\ Cardinality(InFlightPrimary(modals)) <= 1
    /\ InFlightPrimary(modals) = {} =>
           \A i \in 1..Len(calls) :
               (calls[i].op = "addEntry" /\ calls[i].error = NoError) =>
                   IndexOf(files[LogPath], formatLogEntry(settings, calls[i].entry)) # -1

(***************************************************************************)
(* Specification of the task modal's priority: a task modal is opened with *)
(* an urgency threshold of 0 or 3 days, then due dates are picked, cleared *)
(* and the priority buttons clicked in any order                           *)
(***************************************************************************)
NextTask ==
    \/ \E t \in {0, 3} : OpenTaskModal(2, <<"task">>, t)
    \/ \E value \in {{}} \cup {{d} : d \in DueDays} : PickDueDate(2, value)
    \/ \E days \in DueDays : ClickQuickDate(2, days)
    \/ ToggleUrgent(2)
    \/ ToggleImportant(2)

InitTask ==
    /\ LogIdle
    /\ LinkerIdle
    /\ PluginIdle
    /\ TabIdle

SpecTask == InitTask /\ [][NextTask]_vars

\* the step is a due-date change of task modal m
DueDateStep(m) == modals'[m].last = "due"

\* the due date of the fields f is set and within the urgency threshold
WithinThreshold(f) == \E d \in f.dueDate : d <= f.taskUrgencyThresholdDays

\* C23: a due date within the threshold makes the task urgent; an urgency set
\* automatically and not toggled by the user since is withdrawn when the due date is
\* cleared or moved beyond the threshold; an urgency set by the user is never
\* withdrawn by a due-date change; the auto-set marker is never true while urgent is
\* false.
C23_AutoUrgency ==
    /\ [][\A m \in ModalIds :
             DueDateStep(m) =>
                 /\ WithinThreshold(modals'[m]) => modals'[m].urgent
                 /\ (modals[m].urgentBy = "auto" /\ ~WithinThreshold(modals'[m])) =>
                        ~modals'[m].urgent
                 /\ modals[m].urgentBy = "user" => modals'[m].urgent]_vars
    /\ [](\A m \in ModalIds : modals[m].urgencyAutoSet => modals[m].urgent)

\* C23 witness: the user made the task urgent, a due date within the threshold came
\* and went, and the task is still urgent with no due date.
C23_Witness ==
    /\ modals[2].kind = "task"
    /\ modals[2].last = "due"
    /\ modals[2].dueDate = {}
    /\ modals[2].urgent
    /\ modals[2].urgentBy = "user"
    /\ ~modals[2].urgencyAutoSet

(***************************************************************************)
(* Specification of inserts into documents that already have sections: the *)
(* log and the note of Acme start with two date sections of the configured *)
(* level, followed by nothing, by a heading of the same level, by a        *)
(* shallower heading or holding a deeper one                               *)
(***************************************************************************)
DateLine(lv, d) == lv \o <<SP, "[", "[", d, "]", "]">>

\* a log whose date headings have level lv
LogDocs(lv) ==
    LET two == LogHeader \o DateLine(lv, Dates[1]) \o <<NL, NL, "-", SP, "old one", NL, NL>>
               \o DateLine(lv, Dates[3]) \o <<NL, NL, "-", SP, "old three", NL>>
    IN { two,
         two \o <<NL, "#", SP, "Archive", NL, NL, "old stuff", NL>>,
         LogHeader \o DateLine(lv, Dates[1]) \o <<NL, NL, "-", SP, "old one", NL, NL>>
             \o lv \o <<"#", SP, "Details", NL, NL, "-", SP, "detail", NL, NL>>
             \o DateLine(lv, Dates[3]) \o <<NL, NL, "-", SP, "old three", NL>> }

\* a note whose date subsections have level lv
NoteDocs(lv) ==
    LET two == <<"#", "#", SP, "Notes", NL, NL>> \o DateLine(lv, Dates[1])
               \o <<NL, "Old one", NL, NL>> \o DateLine(lv, Dates[3]) \o <<NL, "Old three", NL>>
    IN { two,
         two \o <<NL, "#", "#", SP, "Tasks", NL, "-", SP, "task", NL>>,
         two \o <<NL, "#", SP, "Other", NL, "text", NL>> }

SectionEntries == {Entry(Dates[i], <<"New">>, "Acme") : i \in 1..3}

InitSection ==
    /\ \E lvLog \in {H2, H3}, lvNote \in {H3, H4}, sep \in BOOLEAN :
          /\ settings = [DEFAULT_SETTINGS EXCEPT !.workLogDateHeadingLevel = lvLog,
                                                 !.relatedNoteDateHeadingLevel = lvNote,
                                                 !.separateEntriesWithBlankLine = sep]
          /\ \E log \in LogDocs(lvLog), note \in NoteDocs(lvNote) :
                files = [p \in Paths |-> IF p = LogPath THEN log
                                         ELSE IF p = "References/Acme.md" THEN note
                                         ELSE Absent]
    /\ folders = {"References"}
    /\ linkDest = [n \in NoteNames |-> IF n = "Acme" THEN "References/Acme.md" ELSE NoPath]
    /\ cachedWorkLogPattern = NoPattern
    /\ cachedRelatedNotePattern = NoPattern
    /\ cachedNextHeadingPattern = NoPattern
    /\ calls = <<>>
    /\ formatted = NoFormat
    /\ LinkerIdle
    /\ PluginIdle
    /\ TabIdle

NextSection ==
    \/ \E e \in SectionEntries : Len(calls) < MaxNoteOps /\ AddEntry(e)
    \/ \E e \in SectionEntries : AddToRelatedNote(e.relatedNote, e)

SpecSection == InitSection /\ [][NextSection]_vars

\* the text at offset i is a line break followed by a heading of level 1..level
HeadingAt(content, i, level) ==
    \E k \in 1..level : MatchAt(content, i, <<NL>> \o [j \in 1..k |-> "#"] \o <<SP>>)

\* where the section that holds offset `from` ends: the offset of the line break
\* before the next heading of level 1..level, or the end of the document
SectionEndFrom(content, from, level) ==
    LET ends == {i \in from..Len(content) : HeadingAt(content, i, level)}
    IN IF ends = {} THEN Len(content) ELSE CHOOSE i \in ends : \A j \in ends : i <= j

\* offset of the first line that is exactly `heading`, or -1
HeadingLine(content, heading) ==
    LET hs == {i \in LineStarts(content) :
                  /\ MatchAt(content, i, heading)
                  /\ (i + Len(heading) = Len(content) \/ content[i + Len(heading) + 1] = NL)}
    IN IF hs = {} THEN -1 ELSE CHOOSE i \in hs : \A j \in hs : i <= j

\* `after` is `before` with text that holds the entry line put in right before
\* offset end: what came before it (less trailing whitespace) and what came after it
\* are as they were
InsertedBefore(before, after, end, entryLine) ==
    LET head == TrimEnd(Substring(before, 0, end))
        tail == SubstringFrom(before, end)
        cut == Len(after) - Len(tail)
    IN /\ cut >= Len(head)
       /\ Substring(after, 0, Len(head)) = head
       /\ SubstringFrom(after, cut) = tail
       /\ IndexOf(Substring(after, Len(head), cut), entryLine) # -1

\* call i inserted into the note of Acme, whose notes section had a subsection for
\* the entry's date
SameDateNoteCall(i) ==
    /\ calls[i].op = "addToRelatedNote"
    /\ calls[i].error = NoError
    /\ calls[i].before # Absent
    /\ HeadingLine(calls[i].before,
                   buildDateHeading(settings, calls[i].entry.date, FALSE)) # -1

\* C24: when the notes section has a subsection for the entry's date, the entry is
\* inserted inside it, after its content and before the next date subsection heading,
\* for both date heading levels, and never beyond the end of the notes section.
C24_InsideDateSubsection ==
    \A i \in 1..Len(calls) :
        SameDateNoteCall(i) =>
            LET heading == buildDateHeading(settings, calls[i].entry.date, FALSE)
                h == HeadingLine(calls[i].before, heading)
                end == SectionEndFrom(calls[i].before, h + Len(heading),
                                      Len(settings.relatedNoteDateHeadingLevel))
            IN InsertedBefore(calls[i].before, calls[i].after, end,
                              formatRelatedNoteEntry(settings, calls[i].entry))

\* C25: an insert that appends to a date section of the log, or to the notes section
\* of a note, puts the entry before the next heading of the section's level or
\* shallower (or at the end of the document); deeper headings do not end the section.
C25_SectionBoundary ==
    \A i \in 1..Len(calls) :
        /\ (calls[i].op = "addEntry"
            /\ HeadingLine(calls[i].before,
                           buildDateHeading(settings, calls[i].entry.date, TRUE)) # -1) =>
               LET heading == buildDateHeading(settings, calls[i].entry.date, TRUE)
                   h == HeadingLine(calls[i].before, heading)
                   end == SectionEndFrom(calls[i].before, h + Len(heading),
                                         Len(settings.workLogDateHeadingLevel))
               IN InsertedBefore(calls[i].before, calls[i].after, end,
                                 formatLogEntry(settings, calls[i].entry))
        /\ (calls[i].op = "addToRelatedNote"
            /\ calls[i].before # Absent
            /\ HeadingLine(calls[i].before, settings.relatedNoteSectionHeading) # -1) =>
               LET h == HeadingLine(calls[i].before, settings.relatedNoteSectionHeading)
                   end == SectionEndFrom(calls[i].before,
                                         h + Len(settings.relatedNoteSectionHeading), 2)
                   tail == SubstringFrom(calls[i].before, end)
                   cut == Len(calls[i].after) - Len(tail)
               IN /\ cut >= 0
                  /\ SubstringFrom(calls[i].after, cut) = tail
                  /\ IndexOf(Substring(calls[i].after, 0, cut),
                             formatRelatedNoteEntry(settings, calls[i].entry)) # -1

(***************************************************************************)
(* Links inside links (checked on SpecLinker)                              *)
(***************************************************************************)
\* the offsets of text where "[[" (open) or "]]" (close) starts
BracketsAt(text, pair) == {i \in 0..(Len(text) - 2) : MatchAt(text, i, pair)}

\* a "[[" of text that lies inside the span of an earlier "[[": no "]]" closes the
\* earlier one before it
NestedLinks(text) ==
    {j \in BracketsAt(text, <<"[", "[">>) :
        \E i \in BracketsAt(text, <<"[", "[">>) :
            /\ i + 2 <= j
            /\ \A k \in BracketsAt(text, <<"]", "]">>) : ~(i + 2 <= k /\ k + 2 <= j)}

\* C26: the output of one processText call never contains a link created inside the
\* [[...]] span of another link, neither in its target part nor in its alias part.
C26_NoLinkInsideLink ==
    (processed # NoCall /\ NestedLinks(processed.text) = {}) =>
        NestedLinks(processed.result) = {}

(***************************************************************************)
(* Inserts are additive (checked on SpecLog, whose log starts as a new     *)
(* file; the formula also reads the related-note calls of other            *)
(* specifications)                                                         *)
(***************************************************************************)
\* the lines of a document that are not blank, less their trailing whitespace
ContentLines(content) ==
    SelectSeq([k \in 1..Len(SplitLines(content)) |-> TrimEnd(SplitLines(content)[k])],
              LAMBDA line : line # <<>>)

\* the lines a are the lines b with the lines added put in at one place
Additive(b, a, added) ==
    \E k \in 0..Len(b) : a = SubSeq(b, 1, k) \o added \o SubSeq(b, k + 1, Len(b))

\* the lines a successful call may add: the entry, before it the date heading when no
\* line was that heading, and before that the notes heading when a note had none
AddedLines(s, call) ==
    LET forLog == call.op = "addEntry"
        b == ContentLines(call.before)
        heading == buildDateHeading(s, call.entry.date, forLog)
        entryLine == IF forLog THEN formatLogEntry(s, call.entry)
                     ELSE formatRelatedNoteEntry(s, call.entry)
    IN (IF forLog \/ s.relatedNoteSectionHeading \in Range(b) THEN <<>>
        ELSE <<s.relatedNoteSectionHeading>>)
       \o (IF heading \in Range(b) THEN <<>> ELSE <<heading>>)
       \o ContentLines(entryLine)

\* how many lines of the sequence satisfy Test
CountLines(lines, Test(_)) == Cardinality({k \in 1..Len(lines) : Test(lines[k])})

\* C27: every insert is additive: the output holds every heading and entry line of
\* the input, unchanged and in order, plus one new entry and at most one new date
\* heading (one exactly when the date had none); after n inserts into a new log the
\* log holds n entries and one heading per distinct date.
C27_InsertIsAdditive ==
    /\ \A i \in 1..Len(calls) :
          (calls[i].error = NoError /\ calls[i].before # Absent) =>
              Additive(ContentLines(calls[i].before), ContentLines(calls[i].after),
                       AddedLines(settings, calls[i]))
    /\ (/\ Len(calls) > 0
        /\ \A i \in 1..Len(calls) : calls[i].op = "addEntry" /\ calls[i].error = NoError
        /\ calls[1].before = LogHeader) =>
           LET lines == ContentLines(files[LogPath])
           IN /\ CountLines(lines, LAMBDA l : StartsWith(l, <<"-", SP>>)) = Len(calls)
              /\ \A d \in DateSet :
                    CountLines(lines, LAMBDA l : l = buildDateHeading(settings, d, TRUE))
                        = IF \E i \in 1..Len(calls) : calls[i].entry.date = d THEN 1 ELSE 0

(***************************************************************************)
(* Specification of the index over a vault with folders: two of the files  *)
(* share the basename "Lee"                                                *)
(***************************************************************************)
\* the markdown files of this vault, in the order getMarkdownFiles lists them
FolderFiles == <<<<"A/">> \o NLee, <<"B/">> \o NLee, <<"A/">> \o NAnnLee, NAnn>>

InitFolders ==
    /\ LogIdle
    /\ PluginIdle
    /\ TabIdle
    /\ mdFiles \in SUBSET Range(FolderFiles)
    /\ noteNames = <<>>
    /\ noteNamesLower = {}
    /\ cachedPatterns = <<>>
    /\ indexBuilt = FALSE
    /\ rebuildTimer = NoTimer
    /\ timers = {}
    /\ loaded = TRUE
    /\ processed = NoCall

NextFolders ==
    \/ LayoutReady(FolderFiles)
    \/ \E path \in Range(FolderFiles) : VaultCreate(path)
    \/ \E path \in Range(FolderFiles) : VaultDelete(path)
    \/ \E old, new \in Range(FolderFiles) : VaultRename(old, new)
    \/ \E id \in TimerIds : RebuildTimerFires(id)

SpecFolders == InitFolders /\ [][NextFolders]_vars

\* C29: after the initial index build and any sequence of create, delete and rename
\* notifications, the indexed names are the basenames of the markdown documents that
\* exist.
C29_IndexEqualsBasenames ==
    indexBuilt => Range(noteNames) = {Basename(path) : path \in mdFiles}

(***************************************************************************)
(* Specification of the debounced rebuild with its scheduling: the layout  *)
(* becomes ready, and a timer that stays pending fires. One name is        *)
(* shorter than three characters                                           *)
(***************************************************************************)
NShort == <<"A", "I">>

\* the markdown files of this vault, in the order getMarkdownFiles lists them
RebuildFiles == <<NShort, NLee, NAnnLee>>

InitRebuild ==
    /\ LogIdle
    /\ PluginIdle
    /\ TabIdle
    /\ mdFiles \in SUBSET Range(RebuildFiles)
    /\ noteNames = <<>>
    /\ noteNamesLower = {}
    /\ cachedPatterns = <<>>
    /\ indexBuilt = FALSE
    /\ rebuildTimer = NoTimer
    /\ timers = {}
    /\ loaded = TRUE
    /\ processed = NoCall

NextRebuild ==
    \/ LayoutReady(RebuildFiles)
    \/ \E path \in Range(RebuildFiles) : VaultCreate(path)
    \/ \E path \in Range(RebuildFiles) : VaultDelete(path)
    \/ \E old, new \in Range(RebuildFiles) : VaultRename(old, new)
    \/ \E id \in TimerIds : RebuildTimerFires(id)
    \/ Unload

SpecRebuild ==
    /\ InitRebuild
    /\ [][NextRebuild]_vars
    /\ WF_vars(LayoutReady(RebuildFiles))
    /\ \A id \in TimerIds : WF_vars(RebuildTimerFires(id))

\* the compiled list holds one matcher for each indexed name of three or more
\* characters, none for another name, longest names first
MatchersMatchIndex ==
    /\ \A k \in 1..Len(cachedPatterns) :
          /\ cachedPatterns[k].name \in Range(noteNames)
          /\ Len(cachedPatterns[k].name) >= 3
          /\ cachedPatterns[k].matchPattern = escapeRegex(cachedPatterns[k].name)
    /\ \A n \in Range(noteNames) :
          Len(n) >= 3 =>
              Cardinality({k \in 1..Len(cachedPatterns) : cachedPatterns[k].name = n}) = 1
    /\ \A k \in 1..(Len(cachedPatterns) - 1) :
          Len(cachedPatterns[k].name) >= Len(cachedPatterns[k + 1].name)

\* the initial build is done and no rebuild is pending
NoRebuildPending == indexBuilt /\ rebuildTimer = NoTimer

\* the index is in step: no rebuild is pending and the matchers are those of the index
InStep == NoRebuildPending /\ MatchersMatchIndex

\* a step of addNote or removeNote that changed the index
IndexMutation == noteNames' # noteNames /\ rebuildTimer' # rebuildTimer /\ rebuildTimer' # NoTimer

\* C30 (as claimed): whenever no rebuild is pending the matchers are those of the
\* index, and as long as the component is not torn down every add or remove of a name
\* is eventually followed by such a state.
C30_EveryMutationFollowedByRebuild ==
    /\ [](NoRebuildPending => MatchersMatchIndex)
    /\ ([]loaded) => [](rebuildTimer # NoTimer => <>InStep)

\* C30 (amended): whenever no rebuild is pending the matchers are those of the index,
\* and once adds and removes stop arriving the index gets in step and stays so; while
\* they keep arriving the rebuild is put off.
C30_RebuildFollowsLastMutation ==
    /\ [](NoRebuildPending => MatchersMatchIndex)
    /\ (<>[][~IndexMutation]_vars) => <>[]InStep

\* C30 witness: "Lee" was indexed before "AI", so a create event added it; the timer
\* it set has fired, and the rebuild compiled "Lee" and left "AI" out.
C30_Witness ==
    /\ noteNames = <<NLee, NShort>>
    /\ InStep
    /\ timers = {}
    /\ Len(cachedPatterns) = 1
    /\ cachedPatterns[1].name = NLee

====
